---- MODULE Spec2Model ----
(***************************************************************************)
(* A model of the computation engine of astro_python (package test_astro): *)
(* angular utilities, aspect engine, house engine, ephemeris and the chart *)
(* orchestrator.                                                           *)
(*                                                                         *)
(* Numbers.  The program computes with binary floating point.  The model   *)
(* computes in fixed point:                                                *)
(*   - an angle is an integer number of hundredths of a degree             *)
(*     (36000 = 360 degrees, 800 = an orb of 8 degrees);                   *)
(*   - a sine, cosine or tangent is an integer number of ten-thousandths;  *)
(*   - an instant (Julian Day) is an integer number of hours (jd * 24).    *)
(* Every scaling rounds to the nearest unit (RDiv).                        *)
(***************************************************************************)
EXTENDS Integers, Sequences, FiniteSets, TLC

VARIABLES
    op,          \* the operation that produced the current state
    positions,   \* calculate_aspects: the body set it was called with
    max_orb,     \* calculate_aspects: the max_orb it was called with
    aspects,     \* the list calculate_aspects returned
    patterns,    \* the list calculate_aspect_patterns returned
    house_args,      \* calculate_houses: [jd, latitude, longitude, system]
    house_data,      \* what calculate_houses returned or raised
    current_system,  \* HouseCalculator.current_system
    current_config,  \* AstrologicalCalculator.current_config
    chart_args,      \* the entry point of AstrologicalCalculator called, and its arguments
    chart_data,      \* what that entry point returned or raised
    call_args,       \* a function of the library called on its own, and its arguments
    call_result,     \* what that function returned or raised
    angle_local,     \* normalize_angle: its variable "angle" while it runs
    threads          \* the calls in progress on one shared AstrologicalCalculator

aspect_vars == <<positions, max_orb, aspects, patterns>>

house_vars == <<house_args, house_data, current_system>>

chart_vars == <<current_config, chart_args, chart_data>>

func_vars == <<call_args, call_result, angle_local>>

thread_vars == <<threads>>

vars == <<op, aspect_vars, house_vars, chart_vars, func_vars, thread_vars>>

\* The outcome of a function that can raise: the value it returns, or the
\* exception that leaves it.
Return(value) == [value |-> value]

Raise(kind, message) == [error |-> kind, message |-> message]

IsError(r) == "error" \in DOMAIN r

\* A local variable assigned once: value is computed once and Rest, the rest
\* of the function, sees the result.
Assign(value, Rest(_)) == CHOOSE result \in {Rest(v) : v \in {value}} : TRUE

----------------------------------------------------------------------------
(* Fixed-point helpers *)

Abs(x) == IF x < 0 THEN -x ELSE x

Min(a, b) == IF a <= b THEN a ELSE b

Max(a, b) == IF a >= b THEN a ELSE b

\* a / b rounded to the nearest integer (b > 0)
RDiv(a, b) == (2 * a + b) \div (2 * b)

\* frac * d / 100000 rounded, computed in two parts to stay within 32 bits
FracMul(frac, d) == RDiv(frac * (d \div 1000), 100) + RDiv(frac * (d % 1000), 100000)

\* c0 + rate * d, the rate per hour given as whole hundredths of a degree and
\* hundred-thousandths of one
Linear(c0, whole, frac, d) == c0 + whole * d + FracMul(frac, d)

----------------------------------------------------------------------------
(* core/utils.py *)

\* the most passes a loop of normalize_angle makes on the angles of the model
MaxPasses == 2000

\* "while angle < 0: angle += 360" makes k passes, k the least number with
\* angle + 360 * k >= 0
WhileNegative(angle) ==
    LET k == CHOOSE n \in 0..MaxPasses :
                 /\ angle + 36000 * n >= 0
                 /\ (n = 0 \/ angle + 36000 * (n - 1) < 0)
    IN  angle + 36000 * k

\* "while angle >= 360: angle -= 360" makes k passes, k the least number with
\* angle - 360 * k < 360
WhileTooLarge(angle) ==
    LET k == CHOOSE n \in 0..MaxPasses :
                 /\ angle - 36000 * n < 36000
                 /\ (n = 0 \/ angle - 36000 * (n - 1) >= 36000)
    IN  angle - 36000 * k

normalize_angle(angle) == WhileTooLarge(WhileNegative(angle))

\* The loops of normalize_angle on a binary64 number.  A number is a record:
\*   [binade |-> 0,  n |-> c]  is c hundredths of a degree, a magnitude at
\*                             which the spacing of binary64 is far below the
\*                             unit of the model, so that adding 360 is exact;
\*   [binade |-> 63, n |-> k]  (k # 0) is k/|k| * (2^63 + |k| * 2048) degrees,
\*                             a number of the binade [2^63, 2^64), in which
\*                             the spacing of binary64 is 2^11 = 2048 degrees.
FloatSpacing63 == 2048

\* angle < 0
FloatIsNegative(x) == x.n < 0

\* angle >= 360
FloatAtLeast360(x) == IF x.binade = 0 THEN x.n >= 36000 ELSE x.n > 0

\* angle += 360, rounded to the nearest number of binary64: in the binade
\* 63 the exact sum is less than half a spacing away from angle
FloatAdd360(x) ==
    IF x.binade = 0 THEN [x EXCEPT !.n = @ + 36000]
    ELSE IF 2 * 360 < FloatSpacing63 THEN x
    ELSE [x EXCEPT !.n = @ + 1]

\* angle -= 360, rounded to the nearest number of binary64
FloatSub360(x) ==
    IF x.binade = 0 THEN [x EXCEPT !.n = @ - 36000]
    ELSE IF 2 * 360 < FloatSpacing63 THEN x
    ELSE [x EXCEPT !.n = @ - 1]

calculate_distance_signed(angle1, angle2) ==
    LET diff == angle1 - angle2
    IN  Min(diff, 36000 - diff)

calculate_distance(angle1, angle2) ==
    LET diff == Abs(angle1 - angle2)
    IN  Min(diff, 36000 - diff)

----------------------------------------------------------------------------
(* Trigonometry of the math module, in fixed point.  An angle is in         *)
(* hundredths of a degree (the program converts to radians with DEGTORAD    *)
(* and back with RADTODEG; the model keeps degrees throughout), a ratio in  *)
(* ten-thousandths.                                                         *)

\* 10000 * sin(d degrees), d = 0..90
SinTable ==
    << 
           0,   175,   349,   523,   698,   872,  1045,  1219,  1392,  1564,  1736,  1908,  2079,
        2250,  2419,  2588,  2756,  2924,  3090,  3256,  3420,  3584,  3746,  3907,  4067,  4226,
        4384,  4540,  4695,  4848,  5000,  5150,  5299,  5446,  5592,  5736,  5878,  6018,  6157,
        6293,  6428,  6561,  6691,  6820,  6947,  7071,  7193,  7314,  7431,  7547,  7660,  7771,
        7880,  7986,  8090,  8192,  8290,  8387,  8480,  8572,  8660,  8746,  8829,  8910,  8988,
        9063,  9135,  9205,  9272,  9336,  9397,  9455,  9511,  9563,  9613,  9659,  9703,  9744,
        9781,  9816,  9848,  9877,  9903,  9925,  9945,  9962,  9976,  9986,  9994,  9998, 10000 >>

\* sine of an angle of the first quadrant (0..9000), interpolated between degrees
SinQ1(a) ==
    LET d == a \div 100
        f == a % 100
    IN  IF f = 0 THEN SinTable[d + 1]
        ELSE SinTable[d + 1] + RDiv(f * (SinTable[d + 2] - SinTable[d + 1]), 100)

\* math.sin
Sin(angle) ==
    LET a == angle % 36000
    IN  IF a <= 9000 THEN SinQ1(a)
        ELSE IF a <= 18000 THEN SinQ1(18000 - a)
        ELSE IF a <= 27000 THEN - SinQ1(a - 18000)
        ELSE - SinQ1(36000 - a)

\* math.cos
Cos(angle) == Sin(angle + 9000)

\* math.tan (angle not an odd multiple of 90 degrees)
Tan(angle) == RDiv(Sin(angle) * 10000, Abs(Cos(angle))) * (IF Cos(angle) < 0 THEN -1 ELSE 1)

\* the angle of 0..9000 whose tangent is y / x (x, y >= 0, not both 0):
\* bisection on sin(a) * x <= cos(a) * y
RECURSIVE AtanQ1(_, _, _, _)
AtanQ1(y, x, lo, hi) ==
    IF hi - lo <= 1
    THEN IF Abs(Sin(hi) * x - Cos(hi) * y) < Abs(Sin(lo) * x - Cos(lo) * y)
         THEN hi ELSE lo
    ELSE LET mid == (lo + hi) \div 2
         IN  IF Sin(mid) * x <= Cos(mid) * y
             THEN AtanQ1(y, x, mid, hi)
             ELSE AtanQ1(y, x, lo, mid)

\* math.atan2, result in -18000 < r <= 18000
Atan2(y, x) ==
    IF x = 0 /\ y = 0 THEN 0
    ELSE LET a == AtanQ1(Abs(y), Abs(x), 0, 9000)
         IN  IF x >= 0 /\ y >= 0 THEN a
             ELSE IF x < 0 /\ y >= 0 THEN 18000 - a
             ELSE IF x < 0 /\ y < 0 THEN a - 18000
             ELSE - a

\* math.atan of a ratio in ten-thousandths
Atan(z) == Atan2(z, 10000)

\* the angle of 0..9000 whose sine is v (0 <= v <= 10000)
RECURSIVE AsinQ1(_, _, _)
AsinQ1(v, lo, hi) ==
    IF hi - lo <= 1
    THEN IF Abs(Sin(hi) - v) < Abs(Sin(lo) - v) THEN hi ELSE lo
    ELSE LET mid == (lo + hi) \div 2
         IN  IF Sin(mid) <= v THEN AsinQ1(v, mid, hi) ELSE AsinQ1(v, lo, mid)

\* math.asin
Asin(v) == IF v >= 0 THEN AsinQ1(v, 0, 9000) ELSE - AsinQ1(-v, 0, 9000)

----------------------------------------------------------------------------
(* core/constants.py *)

ASPECTS_quintile_wide ==
    << [name |-> "Conjonction", angle |-> 0,     orb |-> 800, type |-> "majeur", score |-> 10],
       [name |-> "Opposition",  angle |-> 18000, orb |-> 800, type |-> "majeur", score |-> -5],
       [name |-> "Trigone",     angle |-> 12000, orb |-> 800, type |-> "majeur", score |-> 8],
       [name |-> "Carré",       angle |-> 9000,  orb |-> 800, type |-> "majeur", score |-> -6],
       [name |-> "Sextile",     angle |-> 6000,  orb |-> 600, type |-> "majeur", score |-> 6],
       [name |-> "Quintile",    angle |-> 7200,  orb |-> 800, type |-> "mineur", score |-> 3],
       [name |-> "Biquintile",  angle |-> 14400, orb |-> 200, type |-> "mineur", score |-> 3],
       [name |-> "Quincunce",   angle |-> 15000, orb |-> 300, type |-> "mineur", score |-> -2] >>

ASPECTS_square_twelve ==
    << [name |-> "Conjonction", angle |-> 0,     orb |-> 800, type |-> "majeur", score |-> 10],
       [name |-> "Opposition",  angle |-> 18000, orb |-> 800, type |-> "majeur", score |-> -5],
       [name |-> "Trigone",     angle |-> 12000, orb |-> 800, type |-> "majeur", score |-> 8],
       [name |-> "Carré",       angle |-> 9000,  orb |-> 800, type |-> "majeur", score |-> -12],
       [name |-> "Sextile",     angle |-> 6000,  orb |-> 600, type |-> "majeur", score |-> 6],
       [name |-> "Quintile",    angle |-> 7200,  orb |-> 200, type |-> "mineur", score |-> 3],
       [name |-> "Biquintile",  angle |-> 14400, orb |-> 200, type |-> "mineur", score |-> 3],
       [name |-> "Quincunce",   angle |-> 15000, orb |-> 300, type |-> "mineur", score |-> -2] >>

ASPECTS ==
    << [name |-> "Conjonction", angle |-> 0,     orb |-> 800, type |-> "majeur", score |-> 10],
       [name |-> "Opposition",  angle |-> 18000, orb |-> 800, type |-> "majeur", score |-> -5],
       [name |-> "Trigone",     angle |-> 12000, orb |-> 800, type |-> "majeur", score |-> 8],
       [name |-> "Carré",       angle |-> 9000,  orb |-> 800, type |-> "majeur", score |-> -6],
       [name |-> "Sextile",     angle |-> 6000,  orb |-> 600, type |-> "majeur", score |-> 6],
       [name |-> "Quintile",    angle |-> 7200,  orb |-> 200, type |-> "mineur", score |-> 3],
       [name |-> "Biquintile",  angle |-> 14400, orb |-> 200, type |-> "mineur", score |-> 3],
       [name |-> "Quincunce",   angle |-> 15000, orb |-> 300, type |-> "mineur", score |-> -2] >>

----------------------------------------------------------------------------
(* core/aspects.py: AspectCalculator *)

\* self.orb_factor = 1.0, in hundredths
orb_factor == 100

_is_applying(planet1_data, planet2_data) ==
    Abs(planet1_data.speed) > Abs(planet2_data.speed)

_is_separating(planet1_data, planet2_data) ==
    ~ _is_applying(planet1_data, planet2_data)

\* list.sort(key=orb) is stable: entry m of the list ends before entry n when
\* its orb is smaller, or equal and m stood before n.
SortsBefore_later_first(list, m, n) ==
    \/ list[m].orb < list[n].orb
    \/ list[m].orb = list[n].orb /\ m > n

SortsBefore(list, m, n) ==
    \/ list[m].orb < list[n].orb
    \/ list[m].orb = list[n].orb /\ m < n

\* the sorted list: at rank r stands the entry that r - 1 entries end before
SortByOrb(list) ==
    Assign([n \in 1..Len(list) |->
               Cardinality({m \in 1..Len(list) : SortsBefore(list, m, n)})],
           LAMBDA before :
               [r \in 1..Len(list) |->
                   list[CHOOSE n \in 1..Len(list) : before[n] = r - 1]])

\* min(aspect_orb, max_orb): the tolerance of one kind
OrbLimit_max(aspect_orb, mo) == Max(aspect_orb, mo)

OrbLimit(aspect_orb, mo) == Min(aspect_orb, mo)

\* the (first body, second body, aspect kind) index triples in the order
\* three nested for loops over n1 bodies, n2 bodies and ASPECTS visit them
Cells(n1, n2) ==
    LET kinds == Len(ASPECTS)
    IN  [t \in 1..(n1 * n2 * kinds) |->
            << ((t - 1) \div (n2 * kinds)) + 1,
               (((t - 1) \div kinds) % n2) + 1,
               ((t - 1) % kinds) + 1 >>]

\* the dict appended to aspects_found for one pair and one kind
AspectEntry(planet1_data, planet2_data, aspect_def) ==
    LET distance     == calculate_distance(planet1_data.longitude,
                                           planet2_data.longitude)
        aspect_angle == aspect_def.angle
        orb          == Abs(distance - aspect_angle)
    IN  [planet1      |-> planet1_data.name,
         planet2      |-> planet2_data.name,
         aspect       |-> aspect_def.name,
         angle        |-> aspect_angle,
         actual_angle |-> distance,
         orb          |-> orb,
         type         |-> aspect_def.type,
         score        |-> aspect_def.score,
         applying     |-> _is_applying(planet1_data, planet2_data),
         separating   |-> _is_separating(planet1_data, planet2_data)]

\* "if i >= j: continue" and "if orb <= min(aspect_orb, max_orb)"
AspectFound(pos, mo, cell) ==
    LET aspect_def == ASPECTS[cell[3]]
        aspect_orb == RDiv(aspect_def.orb * orb_factor, 100)
    IN  /\ cell[1] < cell[2]
        /\ AspectEntry(pos[cell[1]], pos[cell[2]], aspect_def).orb
             <= OrbLimit(aspect_orb, mo)

calculate_aspects(pos, mo) ==
    Assign(SelectSeq(Cells(Len(pos), Len(pos)),
                     LAMBDA cell : AspectFound(pos, mo, cell)),
           LAMBDA hits :
    Assign([n \in 1..Len(hits) |->
               AspectEntry(pos[hits[n][1]], pos[hits[n][2]], ASPECTS[hits[n][3]])],
           LAMBDA aspects_found :
    SortByOrb(aspects_found)))

\* [a for a in aspects if a['aspect'] == name]
OfKind(list, name) == SelectSeq(list, LAMBDA a : a.aspect = name)

InSeq(x, seq) == \E n \in 1..Len(seq) : seq[n] = x

\* the bodies that have a trine, in the order of the body set
TrineKeys_enumerated(trines, n, keys) ==
    SelectSeq(<< "Sun", "Moon", "Mercury", "Venus", "Mars", "Jupiter", "Saturn",
                 "Uranus", "Neptune", "Pluto", "Node", "South_Node", "Chiron" >>,
              LAMBDA body : \E t \in 1..Len(trines) :
                                body \in {trines[t].planet1, trines[t].planet2})

\* the keys of planets_in_trine, in insertion order
RECURSIVE TrineKeys(_, _, _)
TrineKeys(trines, n, keys) ==
    IF n > Len(trines) THEN keys
    ELSE
        LET p1 == trines[n].planet1
            p2 == trines[n].planet2
            k1 == IF InSeq(p1, keys) THEN keys ELSE Append(keys, p1)
            k2 == IF InSeq(p2, k1) THEN k1 ELSE Append(k1, p2)
        IN  TrineKeys(trines, n + 1, k2)

\* planets_in_trine[planet], in append order
RECURSIVE TrineConnections(_, _, _, _)
TrineConnections(trines, planet, n, conns) ==
    IF n > Len(trines) THEN conns
    ELSE
        LET p1 == trines[n].planet1
            p2 == trines[n].planet2
            c1 == IF p1 = planet THEN Append(conns, p2) ELSE conns
            c2 == IF p2 = planet THEN Append(c1, p1) ELSE c1
        IN  TrineConnections(trines, planet, n + 1, c2)

\* the three nested loops of "Chercher un triangle complet", from (a, b, c) on
RECURSIVE TriangleLoop_unclosed(_, _, _, _, _)
TriangleLoop_unclosed(trines, keys, a, b, c) ==
    IF a > Len(keys) THEN <<>>
    ELSE
        LET planet      == keys[a]
            connections == TrineConnections(trines, planet, 1, <<>>)
        IN  IF b > Len(connections) THEN TriangleLoop_unclosed(trines, keys, a + 1, 1, 1)
            ELSE
                LET connected == connections[b]
                    thirds    == TrineConnections(trines, connected, 1, <<>>)
                IN  IF ~ InSeq(connected, keys) \/ c > Len(thirds)
                    THEN TriangleLoop_unclosed(trines, keys, a, b + 1, 1)
                    ELSE IF InSeq(thirds[c], keys)
                         THEN <<planet, connected, thirds[c]>>
                         ELSE TriangleLoop_unclosed(trines, keys, a, b, c + 1)

RECURSIVE TriangleLoop(_, _, _, _, _)
TriangleLoop(trines, keys, a, b, c) ==
    IF a > Len(keys) THEN <<>>
    ELSE
        LET planet      == keys[a]
            connections == TrineConnections(trines, planet, 1, <<>>)
        IN  IF b > Len(connections) THEN TriangleLoop(trines, keys, a + 1, 1, 1)
            ELSE
                LET connected == connections[b]
                    thirds    == TrineConnections(trines, connected, 1, <<>>)
                IN  IF ~ InSeq(connected, keys) \/ c > Len(thirds)
                    THEN TriangleLoop(trines, keys, a, b + 1, 1)
                    ELSE IF /\ InSeq(thirds[c], keys)
                            /\ InSeq(planet, TrineConnections(trines, thirds[c], 1, <<>>))
                         THEN <<planet, connected, thirds[c]>>
                         ELSE TriangleLoop(trines, keys, a, b, c + 1)

_find_grand_trine(list) ==
    LET trines == OfKind(list, "Trigone")
    IN  TriangleLoop(trines, TrineKeys(trines, 1, <<>>), 1, 1, 1)

\* square_planets for the opposition p1-p2, scanning squares from n on
RECURSIVE SquarePlanets(_, _, _, _, _)
SquarePlanets(squares, p1, p2, n, square_planets) ==
    IF n > Len(squares) THEN square_planets
    ELSE
        LET square == squares[n]
            next   == IF square.planet1 = p1 /\ square.planet2 # p2
                          THEN Append(square_planets, square.planet2)
                      ELSE IF square.planet2 = p1 /\ square.planet1 # p2
                          THEN Append(square_planets, square.planet1)
                      ELSE IF square.planet1 = p2 /\ square.planet2 # p1
                          THEN Append(square_planets, square.planet2)
                      ELSE IF square.planet2 = p2 /\ square.planet1 # p1
                          THEN Append(square_planets, square.planet1)
                      ELSE square_planets
        IN  SquarePlanets(squares, p1, p2, n + 1, next)

RECURSIVE OppositionLoop(_, _, _)
OppositionLoop(oppositions, squares, n) ==
    IF n > Len(oppositions) THEN <<>>
    ELSE
        LET p1 == oppositions[n].planet1
            p2 == oppositions[n].planet2
            square_planets == SquarePlanets(squares, p1, p2, 1, <<>>)
        IN  IF Len(square_planets) >= 1
            THEN <<p1, p2, square_planets[1]>>
            ELSE OppositionLoop(oppositions, squares, n + 1)

_find_t_square(list) ==
    OppositionLoop(OfKind(list, "Opposition"), OfKind(list, "Carré"), 1)

\* (shared_planet, other_planets) of two quincunxes; shared = "" models None
YodShared(q1, q2) ==
    IF q1.planet1 = q2.planet1
        THEN [shared_planet |-> q1.planet1, other_planets |-> <<q1.planet2, q2.planet2>>]
    ELSE IF q1.planet1 = q2.planet2
        THEN [shared_planet |-> q1.planet1, other_planets |-> <<q1.planet2, q2.planet1>>]
    ELSE IF q1.planet2 = q2.planet1
        THEN [shared_planet |-> q1.planet2, other_planets |-> <<q1.planet1, q2.planet2>>]
    ELSE IF q1.planet2 = q2.planet2
        THEN [shared_planet |-> q1.planet2, other_planets |-> <<q1.planet1, q2.planet1>>]
    ELSE [shared_planet |-> "", other_planets |-> <<>>]

RECURSIVE QuincunxLoop_no_sextile(_, _, _, _)
QuincunxLoop_no_sextile(quincunxes, sextiles, i, j) ==
    IF i > Len(quincunxes) THEN <<>>
    ELSE IF j > Len(quincunxes) THEN QuincunxLoop_no_sextile(quincunxes, sextiles, i + 1, i + 2)
    ELSE
        LET s == YodShared(quincunxes[i], quincunxes[j])
            o == s.other_planets
        IN  IF /\ s.shared_planet # ""
               /\ Len(o) = 2
            THEN <<s.shared_planet, o[1], o[2]>>
            ELSE QuincunxLoop_no_sextile(quincunxes, sextiles, i, j + 1)

RECURSIVE QuincunxLoop(_, _, _, _)
QuincunxLoop(quincunxes, sextiles, i, j) ==
    IF i > Len(quincunxes) THEN <<>>
    ELSE IF j > Len(quincunxes) THEN QuincunxLoop(quincunxes, sextiles, i + 1, i + 2)
    ELSE
        LET s == YodShared(quincunxes[i], quincunxes[j])
            o == s.other_planets
        IN  IF /\ s.shared_planet # ""
               /\ Len(o) = 2
               /\ \E n \in 1..Len(sextiles) :
                     \/ sextiles[n].planet1 = o[1] /\ sextiles[n].planet2 = o[2]
                     \/ sextiles[n].planet1 = o[2] /\ sextiles[n].planet2 = o[1]
            THEN <<s.shared_planet, o[1], o[2]>>
            ELSE QuincunxLoop(quincunxes, sextiles, i, j + 1)

_find_yod(list) ==
    QuincunxLoop(OfKind(list, "Quincunce"), OfKind(list, "Sextile"), 1, 2)

calculate_aspect_patterns(list) ==
    LET grand_trine == _find_grand_trine(list)
        t_square    == _find_t_square(list)
        yod         == _find_yod(list)
    IN  (IF grand_trine # <<>>
         THEN << [type |-> "Grand Trigone", planets |-> grand_trine,
                  interpretation |-> "Harmonie et talents naturels"] >>
         ELSE <<>>)
        \o
        (IF t_square # <<>>
         THEN << [type |-> "T-Carré", planets |-> t_square,
                  interpretation |-> "Tension créative et motivation"] >>
         ELSE <<>>)
        \o
        (IF yod # <<>>
         THEN << [type |-> "Yod", planets |-> yod,
                  interpretation |-> "Destinée spéciale et ajustements"] >>
         ELSE <<>>)

----------------------------------------------------------------------------
(* core/houses.py: HouseCalculator *)

\* the J2000.0 epoch 2451545.0, in hours
J2000 == 58837080

\* gst = 280.46061837 + 360.98564736629 * (jd - 2451545.0) + ...; per hour
\* that is 15.0410686 degrees.  The terms in t^2 and t^3 are below a
\* hundredth of a degree for every instant of the model and are left out.
\* gst_hours = gst / 15 and lst = lst_hours * 15 cancel: hours are kept in
\* units of 1/1500 hour, in which the two conversions are exact.
_calculate_local_sidereal_time(jd, longitude) ==
    LET d             == jd - J2000
        gst           == normalize_angle(Linear(28046, 1504, 10686, d))
        gst_hours     == gst
        longitude_hours == longitude
        lst_hours     == gst_hours + longitude_hours
        lst           == lst_hours
    IN  normalize_angle(lst)

\* epsilon = 23.439281
_calculate_ascendant(lst, latitude) ==
    LET epsilon == 2344
        sin_lat == Sin(latitude)
        cos_lat == Cos(latitude)
        y1      == RDiv(Sin(lst) * cos_lat, 10000)
        x1      == RDiv(Cos(lst) * cos_lat, 10000)
        ra_asc  == Atan2(y1, x1)
        dec_asc == Asin(RDiv(sin_lat * Sin(epsilon), 10000))
        y2      == RDiv(Sin(ra_asc) * Cos(epsilon), 10000)
                     + RDiv(Tan(dec_asc) * Sin(epsilon), 10000)
        x2      == Cos(ra_asc)
    IN  normalize_angle(Atan2(y2, x2))

\* latitude_corr = latitude * 0.0001
_calculate_mc(lst, latitude) ==
    LET latitude_corr == RDiv(latitude, 10000)
    IN  normalize_angle(lst + latitude_corr)

\* cusp_correction = diurnal_arc * tan(lat) * 0.01
_calculate_placidus_cusp(ascendant, diurnal_arc, latitude, lst) ==
    LET lat_factor      == Tan(latitude)
        cusp_correction == RDiv(diurnal_arc * lat_factor, 1000000)
    IN  normalize_angle(ascendant + diurnal_arc + cusp_correction)

\* "S'assurer que les maisons sont dans l'ordre": for i in range(12), in place
RECURSIVE PlacidusOrderLoop(_, _)
PlacidusOrderLoop(houses, i) ==
    IF i > 11 THEN houses
    ELSE IF i > 0 /\ houses[i + 1] < houses[i]
         THEN PlacidusOrderLoop([houses EXCEPT ![i + 1] = @ + 36000], i + 1)
         ELSE PlacidusOrderLoop(houses, i + 1)

\* houses[i] of the program is houses[i + 1] of the model
_placidus_houses(ascendant, mc, latitude, lst) ==
    LET diurnal_arc(i) == IF i >= 7 THEN 18000 + (i - 6) * 3000 ELSE (i - 6) * 3000
        houses == [n \in 1..12 |->
                     LET i == n - 1
                     IN  IF i = 0 THEN ascendant
                         ELSE IF i = 9 THEN mc
                         ELSE _calculate_placidus_cusp(ascendant, diurnal_arc(i),
                                                       latitude, lst)]
    IN  PlacidusOrderLoop(houses, 0)

_calculate_oblique_ascension(angle, latitude) ==
    LET tan_lat == Tan(latitude)
    IN  normalize_angle(angle - Atan(RDiv(tan_lat * Sin(angle), 10000)))

_ascension_to_longitude(ascension, latitude) ==
    normalize_angle(ascension + Atan(RDiv(Tan(latitude) * Sin(ascension), 10000)))

_koch_houses(ascendant, mc, latitude, lst) ==
    [n \in 1..12 |->
        LET i == n - 1
            house_angle == i * 3000
            ascension   == _calculate_oblique_ascension(house_angle, latitude)
        IN  IF i = 0 THEN ascendant
            ELSE IF i = 9 THEN mc
            ELSE _ascension_to_longitude(ascension, latitude)]

\* longitude = ascendant + vertical_angle + tan(lat) * sin(vertical_angle) * 5
_vertical_to_longitude(vertical_angle, latitude, ascendant) ==
    LET tan_factor == Tan(latitude)
    IN  normalize_angle(ascendant + vertical_angle
            + RDiv(RDiv(tan_factor * Sin(vertical_angle), 10000) * 500, 10000))

_campanus_houses(ascendant, mc, latitude) ==
    [n \in 1..12 |-> _vertical_to_longitude((n - 1) * 3000, latitude, ascendant)]

\* lat_factor = tan(latitude) * 0.1
_equatorial_to_longitude(equatorial_angle, latitude) ==
    LET lat_factor == Tan(latitude)
    IN  normalize_angle(equatorial_angle
            + RDiv(equatorial_angle * lat_factor, 100000))

_regiomontanus_houses(ascendant, mc, latitude) ==
    [n \in 1..12 |->
        LET i == n - 1
        IN  IF i = 0 THEN ascendant
            ELSE IF i = 9 THEN mc
            ELSE _equatorial_to_longitude(i * 3000, latitude)]

_equal_houses_unwrapped(ascendant) ==
    [n \in 1..12 |-> ascendant + (n - 1) * 3000]

_equal_houses(ascendant) ==
    [n \in 1..12 |-> normalize_angle(ascendant + (n - 1) * 3000)]

\* Line 331 calls normalize_shape, a name defined nowhere (utils.py defines
\* normalize_angle): evaluating it raises NameError after houses[0], houses[9]
\* and houses[10] were set, and the function returns nothing.
_porphyry_houses(ascendant, mc) ==
    Raise("NameError", "name 'normalize_shape' is not defined")

calculate_houses_strict(jd, latitude, longitude, system) ==
    Assign(_calculate_local_sidereal_time(jd, longitude), LAMBDA lst :
    Assign(_calculate_ascendant(lst, latitude), LAMBDA ascendant :
    Assign(_calculate_mc(lst, latitude), LAMBDA mc :
    Assign(IF system = "P"
               THEN Return(_placidus_houses(ascendant, mc, latitude, lst))
           ELSE IF system = "K"
               THEN Return(_koch_houses(ascendant, mc, latitude, lst))
           ELSE IF system = "C"
               THEN Return(_campanus_houses(ascendant, mc, latitude))
           ELSE IF system = "R"
               THEN Return(_regiomontanus_houses(ascendant, mc, latitude))
           ELSE IF system = "E"
               THEN Return(_equal_houses(ascendant))
           ELSE IF system = "O"
               THEN _porphyry_houses(ascendant, mc)
           ELSE Raise("ValueError", "unknown house system"),
           LAMBDA houses :
    IF IsError(houses) THEN houses
    ELSE [houses     |-> houses.value,
          ascendant  |-> ascendant,
          descendant |-> normalize_angle(ascendant + 18000),
          mc         |-> mc,
          ic         |-> normalize_angle(mc + 18000),
          system     |-> system,
          lst        |-> lst]))))

calculate_houses(jd, latitude, longitude, system) ==
    Assign(_calculate_local_sidereal_time(jd, longitude), LAMBDA lst :
    Assign(_calculate_ascendant(lst, latitude), LAMBDA ascendant :
    Assign(_calculate_mc(lst, latitude), LAMBDA mc :
    Assign(IF system = "P"
               THEN Return(_placidus_houses(ascendant, mc, latitude, lst))
           ELSE IF system = "K"
               THEN Return(_koch_houses(ascendant, mc, latitude, lst))
           ELSE IF system = "C"
               THEN Return(_campanus_houses(ascendant, mc, latitude))
           ELSE IF system = "R"
               THEN Return(_regiomontanus_houses(ascendant, mc, latitude))
           ELSE IF system = "E"
               THEN Return(_equal_houses(ascendant))
           ELSE IF system = "O"
               THEN _porphyry_houses(ascendant, mc)
           ELSE Return(_placidus_houses(ascendant, mc, latitude, lst)),
           LAMBDA houses :
    IF IsError(houses) THEN houses
    ELSE [houses     |-> houses.value,
          ascendant  |-> ascendant,
          descendant |-> normalize_angle(ascendant + 18000),
          mc         |-> mc,
          ic         |-> normalize_angle(mc + 18000),
          system     |-> system,
          lst        |-> lst]))))

----------------------------------------------------------------------------
(* data/ephemeris.py: EphemerisCalculator *)
(* Units: longitude, latitude, inclination in hundredths of a degree;      *)
(* eccentricity in ten-thousandths; distance in ten-thousandths of an AU   *)
(* (the Moon: km); speed in ten-thousandths of a degree per day; period in *)
(* hundredths of a day.  t = (jd - 2451545.0) / 36525 is d / 876600 for d  *)
(* hours since J2000.0; the terms in t^2 and t^3 and the t-dependence of   *)
(* the series coefficients are below a hundredth of a degree for the       *)
(* instants of the model and are left out.                                 *)

\* the identifiers of a body set, in the insertion order of calculate_all_planets
BodyNames ==
    << "Sun", "Moon", "Mercury", "Venus", "Mars", "Jupiter", "Saturn",
       "Uranus", "Neptune", "Pluto", "Node", "South_Node", "Chiron" >>

planet_elements ==
    [Sun     |-> [a |-> 10000,  e |-> 167,  i |-> 0,    L |-> 0,     w |-> 28294, Node |-> 0,     period |-> 36525],
     Moon    |-> [a |-> 26,     e |-> 549,  i |-> 515,  L |-> 0,     w |-> 0,     Node |-> 0,     period |-> 2732],
     Mercury |-> [a |-> 3871,   e |-> 2056, i |-> 700,  L |-> 25225, w |-> 7746,  Node |-> 4833,  period |-> 8797],
     Venus   |-> [a |-> 7233,   e |-> 68,   i |-> 339,  L |-> 18198, w |-> 13153, Node |-> 7668,  period |-> 22470],
     Mars    |-> [a |-> 15237,  e |-> 934,  i |-> 185,  L |-> 35545, w |-> 33604, Node |-> 4958,  period |-> 68698],
     Jupiter |-> [a |-> 52034,  e |-> 484,  i |-> 131,  L |-> 3440,  w |-> 1475,  Node |-> 10056, period |-> 433259],
     Saturn  |-> [a |-> 95371,  e |-> 542,  i |-> 248,  L |-> 4994,  w |-> 9243,  Node |-> 11372, period |-> 1075922],
     Uranus  |-> [a |-> 191913, e |-> 472,  i |-> 77,   L |-> 31323, w |-> 17096, Node |-> 7423,  period |-> 3068540],
     Neptune |-> [a |-> 300690, e |-> 86,   i |-> 177,  L |-> 30488, w |-> 4497,  Node |-> 13172, period |-> 6018900],
     Pluto   |-> [a |-> 394817, e |-> 2488, i |-> 1714, L |-> 23893, w |-> 22407, Node |-> 11030, period |-> 9073700]]

_calculate_sun_position_unwrapped(jd) ==
    LET d  == jd - J2000
        L  == normalize_angle(Linear(28047, 4, 10686, d))
        M  == normalize_angle(Linear(35753, 4, 10667, d))
        e  == 167
        C  == RDiv(19146 * Sin(M), 1000000) + RDiv(200 * Sin(2 * M), 1000000)
                + RDiv(3 * Sin(3 * M), 1000000)
        longitude == L + C
        distance  == RDiv((10000 - RDiv(e * e, 10000)) * 10000,
                          10000 + RDiv(e * Cos(M + C), 10000))
    IN  [longitude  |-> longitude,
         latitude   |-> 0,
         distance   |-> distance,
         speed      |-> 9856,
         retrograde |-> FALSE]

_calculate_sun_position(jd) ==
    LET d  == jd - J2000
        L  == normalize_angle(Linear(28047, 4, 10686, d))
        M  == normalize_angle(Linear(35753, 4, 10667, d))
        e  == 167
        C  == RDiv(19146 * Sin(M), 1000000) + RDiv(200 * Sin(2 * M), 1000000)
                + RDiv(3 * Sin(3 * M), 1000000)
        longitude == L + C
        distance  == RDiv((10000 - RDiv(e * e, 10000)) * 10000,
                          10000 + RDiv(e * Cos(M + C), 10000))
    IN  [longitude  |-> normalize_angle(longitude),
         latitude   |-> 0,
         distance   |-> distance,
         speed      |-> 9856,
         retrograde |-> FALSE]

_calculate_moon_position(jd) ==
    LET d  == jd - J2000
        L  == normalize_angle(Linear(21832, 54, 90165, d))
        P  == normalize_angle(Linear(8335, 0, 46418, d))
        M  == normalize_angle(L - P)
        D  == normalize_angle(Linear(29785, 50, 79479, d))
        F  == normalize_angle(Linear(9327, 55, 12229, d))
        longitude == L + RDiv(62888 * Sin(M), 1000000)
                       + RDiv(12740 * Sin(2 * D - M), 1000000)
                       + RDiv(6583 * Sin(2 * D), 1000000)
                       + RDiv(2136 * Sin(2 * M), 1000000)
                       - RDiv(1856 * Sin(P), 1000000)
                       - RDiv(1143 * Sin(2 * F), 1000000)
        latitude  == RDiv(51282 * Sin(F), 1000000)
                       + RDiv(2806 * Sin(M + F), 1000000)
                       + RDiv(2777 * Sin(M - F), 1000000)
    IN  [longitude  |-> normalize_angle(longitude),
         latitude   |-> latitude,
         distance   |-> 385001,
         speed      |-> 131764,
         retrograde |-> FALSE]

\* the mean anomaly advanced by the days since J2000
_calculate_planet_position_moving(planet_name, jd, elements) ==
    LET rate == RDiv(3600000, 24 * RDiv(elements.period, 100))
        M  == normalize_angle(elements.L - elements.w + RDiv(rate * (jd - J2000), 100))
        e  == elements.e
        e2 == RDiv(e * e, 10000)
        e3 == RDiv(e2 * e, 10000)
        C  == RDiv((2 * e - RDiv(e3, 4)) * Sin(M), 1000000)
        longitude == normalize_angle(elements.w + M + C)
    IN  [longitude  |-> longitude,
         latitude   |-> RDiv(elements.i * Sin(longitude - elements.Node), 10000),
         distance   |-> elements.a,
         speed      |-> RDiv(360000000, elements.period),
         retrograde |-> FALSE]

\* t is computed from jd and never used: the position is a function of the
\* elements alone.  C is added to the longitude as degrees, as the code does.
_calculate_planet_position(planet_name, jd, elements) ==
    LET M  == normalize_angle(elements.L - elements.w)
        e  == elements.e
        e2 == RDiv(e * e, 10000)
        e3 == RDiv(e2 * e, 10000)
        C  == RDiv((2 * e - RDiv(e3, 4)) * Sin(M), 1000000)
                + RDiv(RDiv(5 * e2, 4) * Sin(2 * M), 1000000)
                + RDiv(RDiv(13 * e3, 12) * Sin(3 * M), 1000000)
        longitude == normalize_angle(elements.w + M + C)
        latitude  == RDiv(elements.i * Sin(longitude - elements.Node), 10000)
        \* a * (1 - e^2) / (1 + e * cos(M + C)), as p + p * (1 - den) / den
        p         == elements.a - RDiv(elements.a * e2, 10000)
        den       == 10000 + RDiv(e * Cos(M + C), 10000)
        distance  == p + RDiv(p * (10000 - den), den)
        speed     == RDiv(360000000, elements.period)
    IN  [longitude  |-> longitude,
         latitude   |-> latitude,
         distance   |-> distance,
         speed      |-> speed,
         retrograde |-> FALSE]

calculate_planet_position_lenient(planet_name, jd) ==
    IF planet_name = "Moon" THEN Return(_calculate_moon_position(jd))
    ELSE IF planet_name \in DOMAIN planet_elements /\ planet_name # "Sun"
    THEN Return(_calculate_planet_position(planet_name, jd, planet_elements[planet_name]))
    ELSE Return(_calculate_sun_position(jd))

calculate_planet_position(planet_name, jd) ==
    IF planet_name \notin DOMAIN planet_elements
    THEN Raise("ValueError", "Planète inconnue: " \o planet_name)
    ELSE IF planet_name = "Sun" THEN Return(_calculate_sun_position(jd))
    ELSE IF planet_name = "Moon" THEN Return(_calculate_moon_position(jd))
    ELSE Return(_calculate_planet_position(planet_name, jd, planet_elements[planet_name]))

_calculate_lunar_node(jd) ==
    LET d == jd - J2000
        longitude == normalize_angle(Linear(12504, 0, -22064, d))
    IN  [longitude  |-> longitude,
         latitude   |-> 0,
         distance   |-> 0,
         speed      |-> -193408,
         retrograde |-> TRUE]

\* the south node with the motion of the north node
_calculate_south_node_copied(north_node) ==
    [north_node EXCEPT !.longitude = normalize_angle(@ + 18000)]

_calculate_south_node(north_node) ==
    [longitude  |-> normalize_angle(north_node.longitude + 18000),
     latitude   |-> 0,
     distance   |-> 0,
     speed      |-> 193408,
     retrograde |-> FALSE]

\* longitude = 209.8856 + 0.0003 * t
_calculate_chiron(jd) ==
    LET d == jd - J2000
        longitude == 20989 + RDiv(3 * d, 87660000)
    IN  [longitude  |-> normalize_angle(longitude),
         latitude   |-> 0,
         distance   |-> 137000,
         speed      |-> 3,
         retrograde |-> FALSE]

\* the dict "positions" as the sequence of its items, in insertion order;
\* each item is the position record with the key as field name
Item(key, position) == [name |-> key] @@ position

calculate_all_planets(jd) ==
    LET planet_names == SubSeq(BodyNames, 1, 10)
        first     == [n \in 1..10 |->
                        Item(planet_names[n],
                             calculate_planet_position(planet_names[n], jd).value)]
        node      == _calculate_lunar_node(jd)
    IN  first \o << Item("Node", node),
                    Item("South_Node", _calculate_south_node(node)),
                    Item("Chiron", _calculate_chiron(jd)) >>

----------------------------------------------------------------------------
(* Civil date-times: datetime.datetime as [year, month, day, hour], the    *)
(* minute and second being 0.                                              *)

datetime(year, month, day, hour) ==
    [year |-> year, month |-> month, day |-> day, hour |-> hour]

IsLeap(year) == (year % 4 = 0 /\ year % 100 # 0) \/ year % 400 = 0

DaysInMonth(year, month) ==
    IF month = 2 THEN (IF IsLeap(year) THEN 29 ELSE 28)
    ELSE IF month \in {4, 6, 9, 11} THEN 30 ELSE 31

\* the day before and the day after a date, at the same hour
PreviousDay(dt) ==
    IF dt.day > 1 THEN [dt EXCEPT !.day = dt.day - 1]
    ELSE IF dt.month > 1
         THEN [dt EXCEPT !.month = dt.month - 1,
                         !.day = DaysInMonth(dt.year, dt.month - 1)]
         ELSE [dt EXCEPT !.year = dt.year - 1, !.month = 12, !.day = 31]

NextDay(dt) ==
    IF dt.day < DaysInMonth(dt.year, dt.month) THEN [dt EXCEPT !.day = dt.day + 1]
    ELSE IF dt.month < 12
         THEN [dt EXCEPT !.month = dt.month + 1, !.day = 1]
         ELSE [dt EXCEPT !.year = dt.year + 1, !.month = 1, !.day = 1]

\* dt + hours for -24 < hours < 24
AddHours(dt, hours) ==
    LET h == dt.hour + hours
    IN  IF h < 0 THEN [PreviousDay(dt) EXCEPT !.hour = h + 24]
        ELSE IF h >= 24 THEN [NextDay(dt) EXCEPT !.hour = h - 24]
        ELSE [dt EXCEPT !.hour = h]

\* datetime.replace(year=...): the same month, day and hour in another year
replace_year(dt, year) ==
    IF year \notin 1..9999
    THEN Raise("ValueError", "year is out of range")
    ELSE IF dt.day > DaysInMonth(year, dt.month)
    THEN Raise("ValueError", "day is out of range for month")
    ELSE Return([dt EXCEPT !.year = year])

\* core/utils.py julian_day, in hours (24 * jd); hour is a whole number
julian_day(year, month, day, hour) ==
    LET y  == IF month <= 2 THEN year - 1 ELSE year
        m  == IF month <= 2 THEN month + 12 ELSE month
        a  == y \div 100
        b  == 2 - a + a \div 4
        jd == 24 * ((1461 * (y + 4716)) \div 4 + (306001 * (m + 1)) \div 10000
                    + day + b - 1524) - 12
    IN  jd + hour

\* core/utils.py gregorian_from_jd of an instant in hours: jd + 0.5 is
\* jd + 12 hours, z its whole days and the remainder the hour;
\* (z - 1867216.25) / 36524.25 = (4 z - 7468865) / 146097,
\* (b - 122.1) / 365.25 = (20 b - 2442) / 7305, 30.6001 = 306001 / 10000
gregorian_from_jd_no_wrap(jd) ==
    LET z == (jd + 12) \div 24
        w == (4 * z - 7468865) \div 146097
        x == w \div 4
        a == z + 1 + w - x
        b == a + 1524
        c == (20 * b - 2442) \div 7305
        d == (1461 * c) \div 4
        e == (10000 * (b - d)) \div 306001
        day   == b - d - (306001 * e) \div 10000
        month == e - 1
        year  == IF month > 2 THEN c - 4716 ELSE c - 4715
        hour  == (jd + 12) % 24
    IN  <<year, month, day, hour>>

gregorian_from_jd(jd) ==
    LET z == (jd + 12) \div 24
        w == (4 * z - 7468865) \div 146097
        x == w \div 4
        a == z + 1 + w - x
        b == a + 1524
        c == (20 * b - 2442) \div 7305
        d == (1461 * c) \div 4
        e == (10000 * (b - d)) \div 306001
        day   == b - d - (306001 * e) \div 10000
        month == IF e < 14 THEN e - 1 ELSE e - 13
        year  == IF month > 2 THEN c - 4716 ELSE c - 4715
        hour  == (jd + 12) % 24
    IN  <<year, month, day, hour>>

\* (later - earlier).days of two naive date-times: whole days, rounded down
DaysBetween(earlier, later) ==
    (julian_day(later.year, later.month, later.day, later.hour)
       - julian_day(earlier.year, earlier.month, earlier.day, earlier.hour)) \div 24

\* the zones of pytz the model knows, with their offset from UTC in hours
\* (zones without daylight saving time in the years of the model)
UtcOffset == ("UTC" :> 0) @@ ("Asia/Tokyo" :> 9) @@ ("Asia/Dubai" :> 4)

----------------------------------------------------------------------------
(* core/constants.py *)

ZODIAC_SIGNS ==
    << "Bélier", "Taureau", "Gémeaux", "Cancer", "Lion", "Vierge",
       "Balance", "Scorpion", "Sagittaire", "Capricorne", "Verseau", "Poissons" >>

ELEMENTS ==
    [Feu |-> {0, 4, 8}, Terre |-> {1, 5, 9}, Air |-> {2, 6, 10}, Eau |-> {3, 7, 11}]

MODALITIES ==
    [Cardinal |-> {0, 3, 6, 9}, Fixe |-> {1, 4, 7, 10}, Mutable |-> {2, 5, 8, 11}]

----------------------------------------------------------------------------
(* core/houses.py: get_planet_house (houses[n] here is houses[n - 1] there) *)

RECURSIVE HouseLoop_no_wrap(_, _, _)
HouseLoop_no_wrap(planet_longitude, houses, i) ==
    IF i > 12 THEN 1
    ELSE LET next_i     == (i % 12) + 1
             house_cusp == houses[i]
             next_cusp  == houses[next_i]
             inside     == house_cusp <= planet_longitude /\ planet_longitude < next_cusp
         IN  IF inside THEN i ELSE HouseLoop_no_wrap(planet_longitude, houses, i + 1)

RECURSIVE HouseLoop(_, _, _)
HouseLoop(planet_longitude, houses, i) ==
    IF i > 12 THEN 1
    ELSE LET next_i     == (i % 12) + 1
             house_cusp == houses[i]
             next_cusp  == houses[next_i]
             inside     == IF next_cusp < house_cusp
                           THEN planet_longitude >= house_cusp \/ planet_longitude < next_cusp
                           ELSE house_cusp <= planet_longitude /\ planet_longitude < next_cusp
         IN  IF inside THEN i ELSE HouseLoop(planet_longitude, houses, i + 1)

get_planet_house(planet_longitude, houses) == HouseLoop(planet_longitude, houses, 1)

----------------------------------------------------------------------------
(* core/calculator.py: AstrologicalCalculator *)

_default_config == [house_system |-> "P", zodiac |-> "tropical"]

_datetime_to_julian(dt, timezone_str) ==
    IF timezone_str \notin DOMAIN UtcOffset
    THEN Raise("UnknownTimeZoneError", timezone_str)
    ELSE LET dt_utc == AddHours(dt, - UtcOffset[timezone_str])
         IN  Return(julian_day(dt_utc.year, dt_utc.month, dt_utc.day, dt_utc.hour))

\* the dict planet_houses, keyed by body name
_assign_planets_to_houses(planet_positions, houses) ==
    [planet \in {planet_positions[n].name : n \in 1..Len(planet_positions)} |->
        LET data == CHOOSE d \in {planet_positions[n] : n \in 1..Len(planet_positions)} :
                        d.name = planet
        IN  get_planet_house(data.longitude, houses)]

\* int(longitude // 30)
SignIndex(longitude) == longitude \div 3000

_calculate_elements(planet_positions) ==
    [element \in DOMAIN ELEMENTS |->
        Cardinality({n \in 1..Len(planet_positions) :
                        SignIndex(planet_positions[n].longitude) \in ELEMENTS[element]})]

_calculate_modalities(planet_positions) ==
    [modality \in DOMAIN MODALITIES |->
        Cardinality({n \in 1..Len(planet_positions) :
                        SignIndex(planet_positions[n].longitude) \in MODALITIES[modality]})]

_is_transit_applying(transit_data, natal_data) ==
    LET transit_speed == IF "speed" \in DOMAIN transit_data THEN transit_data.speed ELSE 0
    IN  transit_speed > 0

_interpret_transit(transit_planet, natal_planet, aspect) ==
    LET interpretations ==
            [Sun  |-> ("Conjonction" :> "Énergie renouvelée et focus sur {natal}")
                   @@ ("Opposition" :> "Tension entre identité et {natal}")
                   @@ ("Trigone" :> "Harmonie entre conscience et {natal}")
                   @@ ("Carré" :> "Défi pour intégrer {natal}"),
             Moon |-> ("Conjonction" :> "Émotions amplifiées concernant {natal}")
                   @@ ("Opposition" :> "Conflit émotionnel avec {natal}")
                   @@ ("Trigone" :> "Flux émotionnel harmonieux avec {natal}")
                   @@ ("Carré" :> "Tension émotionnelle autour de {natal}")]
    IN  IF transit_planet \in DOMAIN interpretations
           /\ aspect \in DOMAIN interpretations[transit_planet]
        THEN interpretations[transit_planet][aspect]
        ELSE "Influence de " \o transit_planet \o " sur " \o natal_planet

_generate_summary(planet_positions, found_aspects, cusp_data) ==
    LET planet_count == Len(planet_positions)
        aspect_count == Len(found_aspects)
    IN  IF aspect_count > planet_count * 2
        THEN "Thème riche en aspects - vie complexe et intéressante"
        ELSE IF aspect_count < planet_count
        THEN "Thème avec peu d'aspects - vie plus simple et directe"
        ELSE "Thème équilibré - vie harmonieuse"

\* ZODIAC_SIGNS[index] of a Python list: indices -12..11 exist
SignAt(index) ==
    IF index \in -12..11 THEN Return(ZODIAC_SIGNS[((index + 12) % 12) + 1])
    ELSE Raise("IndexError", "list index out of range")

\* The three loops run in this order; the first exception leaves the function.
_generate_interpretations(planet_positions, found_aspects, cusp_data, planet_houses) ==
    LET planets ==
            [n \in 1..Len(planet_positions) |->
                LET data  == planet_positions[n]
                    sign  == SignAt(SignIndex(data.longitude))
                IN  IF IsError(sign) THEN sign
                    ELSE Return([planet     |-> data.name,
                                 sign       |-> data.name \o " en " \o sign.value,
                                 house      |-> planet_houses[data.name],
                                 retrograde |-> IF "retrograde" \in DOMAIN data
                                                THEN data.retrograde ELSE FALSE])]
        top == SubSeq(found_aspects, 1, Min(5, Len(found_aspects)))
        top_aspects ==
            [n \in 1..Len(top) |->
                IF "interpretation" \in DOMAIN top[n]
                THEN Return([key   |-> top[n].planet1 \o "-" \o top[n].planet2,
                             value |-> top[n].interpretation])
                ELSE Raise("KeyError", "interpretation")]
        house_signs ==
            [i \in 1..12 |-> SignAt(SignIndex(cusp_data.houses[i]))]
        FirstError(results) ==
            results[CHOOSE n \in 1..Len(results) :
                        /\ IsError(results[n])
                        /\ \A m \in 1..(n - 1) : ~ IsError(results[m])]
        Failed(results) == \E n \in 1..Len(results) : IsError(results[n])
    IN  IF Failed(planets) THEN FirstError(planets)
        ELSE IF Failed(top_aspects) THEN FirstError(top_aspects)
        ELSE IF Failed(house_signs) THEN FirstError(house_signs)
        ELSE Return([planets |-> [n \in 1..Len(planets) |-> planets[n].value],
                     aspects |-> [n \in 1..Len(top) |-> top_aspects[n].value],
                     houses  |-> [i \in 1..12 |-> house_signs[i].value],
                     summary |-> _generate_summary(planet_positions, found_aspects, cusp_data)])

\* the return statement of calculate_natal_chart
NatalChartRecord(birth_data, planet_positions, cusp_data, planet_houses, found_aspects, interpretations, config) ==
    [birth_data       |-> birth_data,
     planet_positions |-> planet_positions,
     house_data       |-> cusp_data,
     planet_houses    |-> planet_houses,
     aspects          |-> found_aspects,
     aspect_patterns  |-> calculate_aspect_patterns(found_aspects),
     element_counts   |-> _calculate_elements(planet_positions),
     modality_counts  |-> _calculate_modalities(planet_positions),
     interpretations  |-> interpretations,
     config           |-> config]

\* config is self.current_config.  The patterns and the element and modality
\* counts cannot raise, so they are computed where the record is built.
calculate_natal_chart(birth_date, latitude, longitude, timezone_str, config) ==
    Assign(_datetime_to_julian(birth_date, timezone_str), LAMBDA jd :
    IF IsError(jd) THEN jd ELSE
    Assign(calculate_all_planets(jd.value), LAMBDA planet_positions :
    Assign(calculate_houses(jd.value, latitude, longitude, config.house_system),
           LAMBDA cusp_data :
    IF IsError(cusp_data) THEN cusp_data ELSE
    Assign(_assign_planets_to_houses(planet_positions, cusp_data.houses),
           LAMBDA planet_houses :
    Assign(calculate_aspects(planet_positions, 800), LAMBDA found_aspects :
    Assign(_generate_interpretations(planet_positions, found_aspects,
                                     cusp_data, planet_houses),
           LAMBDA interpretations :
    IF IsError(interpretations) THEN interpretations ELSE
    Return(NatalChartRecord([date       |-> birth_date,
                             latitude   |-> latitude,
                             longitude  |-> longitude,
                             timezone   |-> timezone_str,
                             julian_day |-> jd.value],
                            planet_positions, cusp_data, planet_houses,
                            found_aspects, interpretations.value, config))))))))

\* orb = abs(distance - aspect_def['angle']) of one visit of the inner loop
CellOrb(first, second, cell) ==
    Abs(calculate_distance(first[cell[1]].longitude, second[cell[2]].longitude)
          - ASPECTS[cell[3]].angle)

\* AstrologicalCalculator has no method of this name: the attribute lookup fails
_filter_significant_transits(transit_aspects) ==
    Raise("AttributeError",
          "'AstrologicalCalculator' object has no attribute '_filter_significant_transits'")

\* the list transit_aspects, built by the loops and sorted by orb
TransitAspects(transit_positions, natal_positions) ==
    LET hits == SelectSeq(Cells(Len(transit_positions), Len(natal_positions)),
                    LAMBDA c :
                        /\ transit_positions[c[1]].name # natal_positions[c[2]].name
                        /\ CellOrb(transit_positions, natal_positions, c) <= ASPECTS[c[3]].orb)
        appended ==
            [n \in 1..Len(hits) |->
                LET c == hits[n]
                IN  [transit_planet |-> transit_positions[c[1]].name,
                     natal_planet   |-> natal_positions[c[2]].name,
                     aspect         |-> ASPECTS[c[3]].name,
                     orb            |-> CellOrb(transit_positions, natal_positions, c),
                     applying       |-> _is_transit_applying(transit_positions[c[1]],
                                                             natal_positions[c[2]]),
                     interpretation |-> _interpret_transit(transit_positions[c[1]].name,
                                                           natal_positions[c[2]].name,
                                                           ASPECTS[c[3]].name)]]
    IN  SortByOrb(appended)

calculate_transits(natal_chart, transit_date) ==
    Assign(_datetime_to_julian(transit_date, natal_chart.birth_data.timezone),
           LAMBDA transit_jd :
    IF IsError(transit_jd) THEN transit_jd ELSE
    Assign(calculate_all_planets(transit_jd.value), LAMBDA transit_positions :
    Assign(TransitAspects(transit_positions, natal_chart.planet_positions),
           LAMBDA transit_aspects :
    Assign(_filter_significant_transits(transit_aspects), LAMBDA significant :
    IF IsError(significant) THEN significant ELSE
    Return([transit_date         |-> transit_date,
            transit_positions    |-> transit_positions,
            transit_aspects      |-> transit_aspects,
            significant_transits |-> significant.value])))))

\* the list progression_aspects, in the order the loops append
ProgressionAspects(prog_positions, natal_positions) ==
    LET hits == SelectSeq(Cells(Len(prog_positions), Len(natal_positions)),
                    LAMBDA c :
                        /\ prog_positions[c[1]].name # natal_positions[c[2]].name
                        /\ 2 * CellOrb(prog_positions, natal_positions, c) <= ASPECTS[c[3]].orb)
    IN  [n \in 1..Len(hits) |->
            LET c == hits[n]
            IN  [progressed_planet |-> prog_positions[c[1]].name,
                 natal_planet      |-> natal_positions[c[2]].name,
                 aspect            |-> ASPECTS[c[3]].name,
                 orb               |-> CellOrb(prog_positions, natal_positions, c)]]

calculate_progressions(natal_chart, progression_date, config) ==
    Assign(natal_chart.birth_data.date, LAMBDA birth_date :
    Assign(DaysBetween(birth_date, progression_date), LAMBDA age_days :
    Assign(replace_year(birth_date, birth_date.year + age_days \div 365),
           LAMBDA progression_birth_date :
    IF IsError(progression_birth_date) THEN progression_birth_date ELSE
    Assign(calculate_natal_chart(progression_birth_date.value,
                                 natal_chart.birth_data.latitude,
                                 natal_chart.birth_data.longitude,
                                 natal_chart.birth_data.timezone, config),
           LAMBDA progressed_chart :
    IF IsError(progressed_chart) THEN progressed_chart ELSE
    Return([progression_date    |-> progression_date,
            \* age_days / 365.25, in hundredths of a year
            age_years           |-> RDiv(age_days * 10000, 36525),
            progressed_chart    |-> progressed_chart.value,
            progression_aspects |->
                ProgressionAspects(progressed_chart.value.planet_positions,
                                   natal_chart.planet_positions)])))))

_get_dominant_elements(elements1, elements2) ==
    SelectSeq(<<"Feu", "Terre", "Air", "Eau">>,
              LAMBDA element : element \in DOMAIN elements1
                               /\ (elements1[element] > 2 \/ elements2[element] > 2))

\* the pairs of elements that both charts have bodies in
_analyze_element_compatibility_present(elements1, elements2) ==
    LET compatibility_scores ==
            [Feu   |-> [Feu |-> 8, Terre |-> 6, Air |-> 9, Eau |-> 4],
             Terre |-> [Feu |-> 6, Terre |-> 8, Air |-> 5, Eau |-> 9],
             Air   |-> [Feu |-> 9, Terre |-> 5, Air |-> 7, Eau |-> 6],
             Eau   |-> [Feu |-> 4, Terre |-> 9, Air |-> 6, Eau |-> 8]]
        pairs == { pair \in (DOMAIN elements1) \X (DOMAIN elements2) :
                      elements1[pair[1]] > 0 /\ elements2[pair[2]] > 0 }
        Key(pair) == pair[1] \o "-" \o pair[2]
        RECURSIVE Sum(_)
        Sum(rest) ==
            IF rest = {} THEN 0
            ELSE LET pair == CHOOSE x \in rest : TRUE
                 IN  compatibility_scores[pair[1]][pair[2]] + Sum(rest \ {pair})
    IN  [total_score       |-> Sum(pairs),
         element_analysis  |->
             [key \in {Key(pair) : pair \in pairs} |->
                 LET pair == CHOOSE x \in pairs : Key(x) = key
                 IN  compatibility_scores[pair[1]][pair[2]]],
         dominant_elements |-> _get_dominant_elements(elements1, elements2)]

_analyze_element_compatibility(elements1, elements2) ==
    LET compatibility_scores ==
            [Feu   |-> [Feu |-> 8, Terre |-> 6, Air |-> 9, Eau |-> 4],
             Terre |-> [Feu |-> 6, Terre |-> 8, Air |-> 5, Eau |-> 9],
             Air   |-> [Feu |-> 9, Terre |-> 5, Air |-> 7, Eau |-> 6],
             Eau   |-> [Feu |-> 4, Terre |-> 9, Air |-> 6, Eau |-> 8]]
        pairs == (DOMAIN elements1) \X (DOMAIN elements2)
        Key(pair) == pair[1] \o "-" \o pair[2]
        RECURSIVE Sum(_)
        Sum(rest) ==
            IF rest = {} THEN 0
            ELSE LET pair == CHOOSE x \in rest : TRUE
                 IN  compatibility_scores[pair[1]][pair[2]] + Sum(rest \ {pair})
    IN  [total_score       |-> Sum(pairs),
         element_analysis  |->
             [key \in {Key(pair) : pair \in pairs} |->
                 LET pair == CHOOSE x \in pairs : Key(x) = key
                 IN  compatibility_scores[pair[1]][pair[2]]],
         dominant_elements |-> _get_dominant_elements(elements1, elements2)]

\* percentage in hundredths of a percent
_interpret_compatibility(percentage, synastry_aspects) ==
    IF percentage >= 8000
    THEN "Compatibilité exceptionnelle - Union harmonieuse et complète"
    ELSE IF percentage >= 6000
    THEN "Très bonne compatibilité - Relation équilibrée avec potentiel de croissance"
    ELSE IF percentage >= 4000
    THEN "Compatibilité moyenne - Travail et communication nécessaires"
    ELSE IF percentage >= 2000
    THEN "Difficultés importantes - Efforts conséquents requis pour la relation"
    ELSE "Compatibilité très faible - Défis majeurs à surmonter"

RECURSIVE SumScores(_, _)
SumScores(synastry_aspects, n) ==
    IF n > Len(synastry_aspects) THEN 0
    ELSE synastry_aspects[n].score + SumScores(synastry_aspects, n + 1)

\* the list synastry_aspects, in the order the loops append
SynastryAspects(positions1, positions2) ==
    LET hits == SelectSeq(Cells(Len(positions1), Len(positions2)),
                    LAMBDA c : CellOrb(positions1, positions2, c) <= ASPECTS[c[3]].orb)
    IN  [n \in 1..Len(hits) |->
            LET c == hits[n]
            IN  [planet1 |-> positions1[c[1]].name,
                 planet2 |-> positions2[c[2]].name,
                 aspect  |-> ASPECTS[c[3]].name,
                 orb     |-> CellOrb(positions1, positions2, c),
                 score   |-> ASPECTS[c[3]].score]]

\* compatibility_percentage is in hundredths of a percent
calculate_compatibility(chart1, chart2) ==
    LET synastry_aspects ==
            SynastryAspects(chart1.planet_positions, chart2.planet_positions)
        total_score        == SumScores(synastry_aspects, 1)
        max_possible_score == Len(synastry_aspects) * 10
        compatibility_percentage ==
            Max(0, Min(10000, RDiv((total_score + max_possible_score) * 10000,
                                   2 * max_possible_score)))
        element_compatibility ==
            _analyze_element_compatibility(chart1.element_counts, chart2.element_counts)
    IN  IF 2 * max_possible_score = 0
        THEN Raise("ZeroDivisionError", "division by zero")
        ELSE Return([synastry_aspects         |-> synastry_aspects,
                     compatibility_score      |-> total_score,
                     compatibility_percentage |-> compatibility_percentage,
                     element_compatibility    |-> element_compatibility,
                     interpretation           |->
                         _interpret_compatibility(compatibility_percentage,
                                                  synastry_aspects)])

----------------------------------------------------------------------------
(* Inputs of the aspect engine *)

\* number of bodies of the body sets handed to calculate_aspects
NumBodies == 3

\* longitudes that put bodies in exact aspect, a few degrees off, and across 0
CoarseLongitudes ==
    {0, 6000, 9000, 12000, 12500, 15000, 18000, 21000, 24000, 35600}

\* every half degree of the circle
FineLongitudes == {50 * h : h \in 0..719}

MaxOrbs == {0, 250, 800}

\* a position record as the aspect engine reads it (speed in 1/10000 degree/day)
InputBody(n, lon) ==
    [name |-> BodyNames[n], longitude |-> lon,
     speed |-> 10000 * (NumBodies + 1 - n), retrograde |-> FALSE]

CoarseBodySets ==
    { [n \in 1..NumBodies |-> InputBody(n, f[n])] :
        f \in [1..NumBodies -> CoarseLongitudes] }

FineBodySets ==
    { <<InputBody(1, a), InputBody(2, b)>> : a \in {0, 35500}, b \in FineLongitudes }

\* four bodies at or next to the corners of a trine triangle, so that a body
\* set can hold several trine triangles with trines of different orbs
TrineLongitudes == {0, 12000, 12100, 24000, 24100}

TrineBodySets ==
    { [n \in 1..4 |-> InputBody(n, f[n])] : f \in [1..4 -> TrineLongitudes] }

\* three bodies at or next to the ends of an opposition and the point
\* square to both, so that a body can be square to one end only
SquareLongitudes == {0, 8300, 9000, 18000, 18800}

SquareBodySets ==
    { [n \in 1..3 |-> InputBody(n, f[n])] : f \in [1..3 -> SquareLongitudes] }

\* four bodies at or next to the points of a Yod (an apex, two bodies 150
\* degrees from it and 60 degrees apart), so that a body set can hold
\* several Yods, and quincunxes that share a body without a sextile
YodLongitudes == {0, 6000, 15000, 15100, 21000}

YodBodySets ==
    { [n \in 1..4 |-> InputBody(n, f[n])] : f \in [1..4 -> YodLongitudes] }

BodySets ==
    CoarseBodySets \cup FineBodySets \cup TrineBodySets \cup SquareBodySets
        \cup YodBodySets

----------------------------------------------------------------------------
(* Inputs of the house engine *)

\* instants: J2000.0 and every second hour after it, NumInstants of them
NumInstants == 12

Instants == {J2000 + 2 * h : h \in 0..(NumInstants - 1)}

\* geographic latitudes and longitudes (hundredths of a degree)
Latitudes == {0, 4500, -3400, 6000}

Longitudes == {0, -7400, 13900}

\* the six codes of HOUSE_SYSTEMS and one that is none of them
SystemCodes == {"P", "K", "C", "R", "E", "O", "X"}

NoArgs == [jd |-> 0, latitude |-> 0, longitude |-> 0, system |-> ""]

NoResult == [none |-> TRUE]

HousesIdle ==
    /\ house_args = NoArgs
    /\ house_data = NoResult
    /\ current_system = "P"

ChartIdle ==
    /\ current_config = _default_config
    /\ chart_args = NoArgs
    /\ chart_data = NoResult

FunctionsIdle ==
    /\ call_args = NoArgs
    /\ call_result = NoResult
    /\ angle_local = NoResult

\* no call in progress on a shared instance
ThreadsIdle == threads = <<>>

----------------------------------------------------------------------------
(* The house engine as a state machine: the arguments are drawn at the      *)
(* start and calculate_houses is called with them.                          *)

InitHouses ==
    /\ op = "init"
    /\ ThreadsIdle
    /\ house_args \in [jd : Instants, latitude : Latitudes,
                       longitude : Longitudes, system : SystemCodes]
    /\ house_data = NoResult
    /\ current_system = "P"
    /\ positions = <<>>
    /\ max_orb = 0
    /\ aspects = <<>>
    /\ patterns = <<>>
    /\ ChartIdle
    /\ FunctionsIdle

CalculateHouses ==
    /\ op = "init"
    /\ op' = "calculate_houses"
    /\ current_system' = house_args.system
    /\ house_data' = calculate_houses(house_args.jd, house_args.latitude,
                                      house_args.longitude, house_args.system)
    /\ UNCHANGED <<house_args, aspect_vars, chart_vars, func_vars, thread_vars>>

NextHouses == CalculateHouses

SpecHouses == InitHouses /\ [][NextHouses]_vars

----------------------------------------------------------------------------
(* The aspect engine as a state machine: the arguments are drawn at the     *)
(* start, calculate_aspects is called with them, then                       *)
(* calculate_aspect_patterns with the list it returned.                     *)

InitAspects ==
    /\ op = "init"
    /\ ThreadsIdle
    /\ positions \in BodySets
    /\ max_orb \in MaxOrbs
    /\ aspects = <<>>
    /\ patterns = <<>>
    /\ HousesIdle
    /\ ChartIdle
    /\ FunctionsIdle

CalculateAspects ==
    /\ op = "init"
    /\ op' = "calculate_aspects"
    /\ aspects' = calculate_aspects(positions, max_orb)
    /\ UNCHANGED <<positions, max_orb, patterns, house_vars, chart_vars, func_vars, thread_vars>>

CalculateAspectPatterns ==
    /\ op = "calculate_aspects"
    /\ op' = "calculate_aspect_patterns"
    /\ patterns' = calculate_aspect_patterns(aspects)
    /\ UNCHANGED <<positions, max_orb, aspects, house_vars, chart_vars, func_vars, thread_vars>>

NextAspects == CalculateAspects \/ CalculateAspectPatterns

SpecAspects == InitAspects /\ [][NextAspects]_vars

----------------------------------------------------------------------------
(* Inputs of the chart orchestrator *)

BirthDates ==
    {datetime(2000, 1, 1, 12), datetime(2000, 2, 29, 6), datetime(1999, 12, 31, 20)}

\* dates less than a year and more than a year after the birth dates, and
\* one before them
TargetDates ==
    {datetime(2000, 6, 1, 12), datetime(2001, 3, 1, 0),
     datetime(2001, 12, 31, 23), datetime(1999, 1, 1, 0)}

TimeZones == {"UTC", "Asia/Tokyo"}

ChartLatitudes == {0, 4500}

ChartLongitudes == {0, 13900}

\* The fields of a Chart record that the comparisons read, built as
\* calculate_natal_chart builds them.  A chart reaches the comparisons from a
\* caller of the library or from a file (MainWindow.open_chart).
Chart(birth_date, latitude, longitude, timezone_str, planet_positions) ==
    [birth_data       |-> [date       |-> birth_date,
                           latitude   |-> latitude,
                           longitude  |-> longitude,
                           timezone   |-> timezone_str,
                           julian_day |-> _datetime_to_julian(birth_date, timezone_str).value],
     planet_positions |-> planet_positions,
     element_counts   |-> _calculate_elements(planet_positions)]

\* charts holding the thirteen bodies of the ephemeris at the birth instant
FullCharts ==
    { Chart(d, 0, 0, tz,
            calculate_all_planets(_datetime_to_julian(d, tz).value)) :
        d \in BirthDates, tz \in TimeZones }

\* charts holding the Sun alone
SunCharts ==
    { Chart(datetime(2000, 1, 1, 12), 0, 0, "UTC",
            << Item("Sun", [_calculate_sun_position(J2000) EXCEPT !.longitude = lon]) >>) :
        lon \in {0, 3000, 12300} }

ExistingCharts == FullCharts \cup SunCharts

NatalCalls ==
    [call : {"calculate_natal_chart"}, birth_date : BirthDates,
     latitude : ChartLatitudes, longitude : ChartLongitudes, timezone_str : TimeZones]

TransitCalls ==
    [call : {"calculate_transits"}, natal_chart : ExistingCharts,
     transit_date : TargetDates]

ProgressionCalls ==
    [call : {"calculate_progressions"}, natal_chart : ExistingCharts,
     progression_date : TargetDates]

CompatibilityCalls ==
    [call : {"calculate_compatibility"}, chart1 : ExistingCharts, chart2 : ExistingCharts]

----------------------------------------------------------------------------
(* The chart orchestrator as a state machine: the configuration, the entry *)
(* point and its arguments are drawn at the start and the entry point is   *)
(* called with them.                                                       *)

InitChart ==
    /\ op = "init"
    /\ ThreadsIdle
    /\ current_config \in [house_system : SystemCodes, zodiac : {"tropical"}]
    /\ chart_args \in NatalCalls \cup TransitCalls \cup ProgressionCalls
                        \cup CompatibilityCalls
    /\ chart_data = NoResult
    /\ positions = <<>>
    /\ max_orb = 0
    /\ aspects = <<>>
    /\ patterns = <<>>
    /\ HousesIdle
    /\ FunctionsIdle

CalculateNatalChart ==
    /\ op = "init"
    /\ chart_args.call = "calculate_natal_chart"
    /\ op' = "calculate_natal_chart"
    /\ chart_data' = calculate_natal_chart(chart_args.birth_date, chart_args.latitude,
                                           chart_args.longitude, chart_args.timezone_str,
                                           current_config)
    \* calculate_houses is reached once the Julian day is known
    /\ current_system' =
           IF IsError(_datetime_to_julian(chart_args.birth_date, chart_args.timezone_str))
           THEN current_system
           ELSE current_config.house_system
    /\ UNCHANGED <<current_config, chart_args, house_args, house_data, aspect_vars, func_vars, thread_vars>>

CalculateTransits ==
    /\ op = "init"
    /\ chart_args.call = "calculate_transits"
    /\ op' = "calculate_transits"
    /\ chart_data' = calculate_transits(chart_args.natal_chart, chart_args.transit_date)
    /\ UNCHANGED <<current_config, chart_args, house_vars, aspect_vars, func_vars, thread_vars>>

CalculateProgressions ==
    /\ op = "init"
    /\ chart_args.call = "calculate_progressions"
    /\ op' = "calculate_progressions"
    /\ chart_data' = calculate_progressions(chart_args.natal_chart,
                                            chart_args.progression_date, current_config)
    \* calculate_natal_chart is reached once the progressed birth date exists
    /\ current_system' =
           LET birth_date == chart_args.natal_chart.birth_data.date
               age_days   == DaysBetween(birth_date, chart_args.progression_date)
           IN  IF IsError(replace_year(birth_date, birth_date.year + age_days \div 365))
               THEN current_system
               ELSE current_config.house_system
    /\ UNCHANGED <<current_config, chart_args, house_args, house_data, aspect_vars, func_vars, thread_vars>>

CalculateCompatibility ==
    /\ op = "init"
    /\ chart_args.call = "calculate_compatibility"
    /\ op' = "calculate_compatibility"
    /\ chart_data' = calculate_compatibility(chart_args.chart1, chart_args.chart2)
    /\ UNCHANGED <<current_config, chart_args, house_vars, aspect_vars, func_vars, thread_vars>>

NextChart ==
    \/ CalculateNatalChart
    \/ CalculateTransits
    \/ CalculateProgressions
    \/ CalculateCompatibility

SpecChart == InitChart /\ [][NextChart]_vars

----------------------------------------------------------------------------
(* Inputs of the functions called on their own *)

\* lists of 12 cusps, each a degree value in [0,360): Equal layouts, the
\* layouts calculate_houses returns for Koch, Campanus and Regiomontanus, a
\* list of equal cusps, a descending list and a list with repeated cusps
CuspLists ==
    { _equal_houses(a) : a \in {0, 1500, 10000, 34500} }
    \cup { calculate_houses(J2000 + 10 * h, lat, 0, system).houses :
              h \in 0..1, lat \in {0, 4500}, system \in {"K", "C", "R"} }
    \cup { [n \in 1..12 |-> 9000],
           [n \in 1..12 |-> 36000 - 3000 * n],
           [n \in 1..12 |-> 6000 * ((n + 1) \div 2) - 6000] }

\* every fifth degree, and the cusps themselves and their neighbours
PlanetLongitudes(houses) ==
    { 500 * k : k \in 0..71 }
    \cup { c \in { houses[n] + e : n \in 1..12, e \in {-1, 0, 1} } : c \in 0..35999 }

GetPlanetHouseCalls ==
    UNION { [call : {"get_planet_house"}, planet_longitude : PlanetLongitudes(h),
             houses : {h}] : h \in CuspLists }

\* instants of the ephemeris: noon and midnight of the days around the
\* equinox of March 2000, the first of every second month of 1999..2001, and
\* a day of 1995, when the north node is in the second half of the circle
EphemerisInstants ==
    { julian_day(2000, 3, day, hour) : day \in 17..23, hour \in {0, 12} }
    \cup { julian_day(year, month, 1, 6) : year \in 1999..2001, month \in {1, 3, 5, 7, 9, 11} }
    \cup { julian_day(1995, 6, 1, 6) }

\* the thirteen bodies of a body set and names that are none of them
PlanetNames ==
    { BodyNames[n] : n \in 1..Len(BodyNames) } \cup {"Ceres", "sun", "Terre", ""}

PlanetPositionCalls ==
    [call : {"calculate_planet_position"}, planet_name : PlanetNames,
     jd : EphemerisInstants]

AllPlanetsCalls == [call : {"calculate_all_planets"}, jd : EphemerisInstants]

\* every fifth degree of [0,360) and the values next to 0, 180 and 360
DistanceAngles ==
    { 500 * k : k \in 0..71 } \cup {1, 17999, 18001, 35999}

DistanceCalls ==
    [call : {"calculate_distance"}, angle1 : DistanceAngles, angle2 : DistanceAngles]

\* civil dates: a leap year, the years next to it, a century year that is
\* not a leap year and one that is skipped by none of the rules; the first,
\* the 28th and the last day of every month, 29 February where it exists
CivilYears == {1900, 1999, 2000, 2001, 2024}

JulianDayCalls ==
    { [call |-> "julian_day", year |-> y, month |-> m, day |-> d, hour |-> h] :
        y \in CivilYears, m \in 1..12, d \in {1, 15, 28, 29, 30, 31}, h \in {0, 12, 23} }
    \ { c \in [call : {"julian_day"}, year : CivilYears, month : 1..12,
                 day : 29..31, hour : {0, 12, 23}] :
            c.day > DaysInMonth(c.year, c.month) }

\* the layouts calculate_houses returns for the systems that return one, at
\* four instants of a day and three latitudes
EngineLayouts ==
    { calculate_houses(J2000 + 6 * h, lat, 0, system).houses :
          h \in 0..3, lat \in {0, 4500, -3400}, system \in {"P", "K", "C", "R", "E"} }

\* two bodies: the Sun at every tenth degree, and the Moon on a cusp of the
\* layout or next to it
PlanetPositions(houses) ==
    { << [name |-> "Sun", longitude |-> 1000 * k],
         [name |-> "Moon", longitude |-> normalize_angle(houses[(k % 12) + 1] + e)] >> :
          k \in 0..35, e \in {-1, 0} }

AssignPlanetsCalls ==
    UNION { [call : {"_assign_planets_to_houses"},
             planet_positions : PlanetPositions(h), houses : {h}] : h \in EngineLayouts }

FunctionCalls ==
    GetPlanetHouseCalls \cup PlanetPositionCalls \cup AllPlanetsCalls
        \cup DistanceCalls \cup JulianDayCalls \cup AssignPlanetsCalls

\* angles of ordinary magnitude, from -1100 to 1100 degrees, with the ends of
\* [0,360), and numbers of the binade [2^63, 2^64) of either sign
NormalizeAngles ==
    [binade : {0}, n : { 1375 * k : k \in -80..80 } \cup {-36000, -1, 35999, 36000, 72000}]
    \cup [binade : {63}, n : {-3, -2, -1, 1, 2, 3}]

NormalizeCalls == [call : {"normalize_angle"}, angle : NormalizeAngles]

----------------------------------------------------------------------------
(* The functions of the library called on their own: the function and its  *)
(* arguments are drawn at the start and the function is called with them.  *)

InitFunctions ==
    /\ op = "init"
    /\ ThreadsIdle
    /\ call_args \in FunctionCalls
    /\ call_result = NoResult
    /\ angle_local = NoResult
    /\ positions = <<>>
    /\ max_orb = 0
    /\ aspects = <<>>
    /\ patterns = <<>>
    /\ HousesIdle
    /\ ChartIdle

GetPlanetHouse ==
    /\ op = "init"
    /\ call_args.call = "get_planet_house"
    /\ op' = "get_planet_house"
    /\ call_result' = Return(get_planet_house(call_args.planet_longitude,
                                              call_args.houses))
    /\ UNCHANGED <<call_args, angle_local, aspect_vars, house_vars, chart_vars, thread_vars>>

CalculatePlanetPosition ==
    /\ op = "init"
    /\ call_args.call = "calculate_planet_position"
    /\ op' = "calculate_planet_position"
    /\ call_result' = calculate_planet_position(call_args.planet_name, call_args.jd)
    /\ UNCHANGED <<call_args, angle_local, aspect_vars, house_vars, chart_vars, thread_vars>>

CalculateAllPlanets ==
    /\ op = "init"
    /\ call_args.call = "calculate_all_planets"
    /\ op' = "calculate_all_planets"
    /\ call_result' = Return(calculate_all_planets(call_args.jd))
    /\ UNCHANGED <<call_args, angle_local, aspect_vars, house_vars, chart_vars, thread_vars>>

CalculateDistance ==
    /\ op = "init"
    /\ call_args.call = "calculate_distance"
    /\ op' = "calculate_distance"
    /\ call_result' = Return(calculate_distance(call_args.angle1, call_args.angle2))
    /\ UNCHANGED <<call_args, angle_local, aspect_vars, house_vars, chart_vars, thread_vars>>

JulianDay ==
    /\ op = "init"
    /\ call_args.call = "julian_day"
    /\ op' = "julian_day"
    /\ call_result' = Return(julian_day(call_args.year, call_args.month,
                                        call_args.day, call_args.hour))
    /\ UNCHANGED <<call_args, angle_local, aspect_vars, house_vars, chart_vars, thread_vars>>

\* gregorian_from_jd called with the Julian Day julian_day returned
GregorianFromJd ==
    /\ op = "julian_day"
    /\ op' = "gregorian_from_jd"
    /\ call_result' = Return(gregorian_from_jd(call_result.value))
    /\ UNCHANGED <<call_args, angle_local, aspect_vars, house_vars, chart_vars, thread_vars>>

AssignPlanetsToHouses ==
    /\ op = "init"
    /\ call_args.call = "_assign_planets_to_houses"
    /\ op' = "_assign_planets_to_houses"
    /\ call_result' = Return(_assign_planets_to_houses(call_args.planet_positions,
                                                       call_args.houses))
    /\ UNCHANGED <<call_args, angle_local, aspect_vars, house_vars, chart_vars, thread_vars>>

NextFunctions ==
    \/ GetPlanetHouse
    \/ AssignPlanetsToHouses
    \/ CalculatePlanetPosition
    \/ CalculateAllPlanets
    \/ CalculateDistance
    \/ JulianDay
    \/ GregorianFromJd

SpecFunctions == InitFunctions /\ [][NextFunctions]_vars

----------------------------------------------------------------------------
(* normalize_angle step by step: the call, then one action per test of a   *)
(* loop condition (together with the loop body when the test succeeds).    *)
(* The interpreter runs the function to its end whenever it can take a     *)
(* step: weak fairness of the steps.  A pass of a loop that leaves angle   *)
(* as it was leaves the whole state as it was: the loop is then run again  *)
(* and again from the same state and the function never returns.           *)

InitNormalize ==
    /\ op = "init"
    /\ ThreadsIdle
    /\ call_args \in NormalizeCalls
    /\ call_result = NoResult
    /\ angle_local = NoResult
    /\ positions = <<>>
    /\ max_orb = 0
    /\ aspects = <<>>
    /\ patterns = <<>>
    /\ HousesIdle
    /\ ChartIdle

NormalizeEnter ==
    /\ op = "init"
    /\ op' = "while angle < 0"
    /\ angle_local' = call_args.angle
    /\ UNCHANGED <<call_args, call_result, aspect_vars, house_vars, chart_vars, thread_vars>>

WhileNegativeStep ==
    /\ op = "while angle < 0"
    /\ IF FloatIsNegative(angle_local)
       THEN /\ angle_local' = FloatAdd360(angle_local)
            /\ op' = "while angle < 0"
       ELSE /\ angle_local' = angle_local
            /\ op' = "while angle >= 360"
    /\ UNCHANGED <<call_args, call_result, aspect_vars, house_vars, chart_vars, thread_vars>>

WhileTooLargeStep ==
    /\ op = "while angle >= 360"
    /\ IF FloatAtLeast360(angle_local)
       THEN /\ angle_local' = FloatSub360(angle_local)
            /\ op' = "while angle >= 360"
            /\ call_result' = call_result
       ELSE /\ angle_local' = angle_local
            /\ op' = "normalize_angle"
            /\ call_result' = Return(angle_local)
    /\ UNCHANGED <<call_args, aspect_vars, house_vars, chart_vars, thread_vars>>

NextNormalize ==
    \/ NormalizeEnter
    \/ WhileNegativeStep
    \/ WhileTooLargeStep

SpecNormalize == InitNormalize /\ [][NextNormalize]_vars /\ WF_vars(NextNormalize)

----------------------------------------------------------------------------
(* Calls in progress at the same time on one AstrologicalCalculator: two   *)
(* threads of the interpreter, each in a call of calculate_houses (on the  *)
(* HouseCalculator of the instance) or of calculate_natal_chart.  The      *)
(* interpreter switches threads between any two instructions; a step of    *)
(* the model ends at each access to a field of the shared objects          *)
(* (current_config, current_system), the computations between them touch   *)
(* locals only.                                                            *)

Threads == {1, 2}

SharedHouseCalls ==
    [call : {"calculate_houses"}, jd : {J2000, J2000 + 6}, latitude : {4500},
     longitude : {0}, system : {"P", "E", "O", "X"}]

SharedNatalCalls ==
    [call : {"calculate_natal_chart"}, birth_date : {datetime(2000, 1, 1, 12)},
     latitude : {4500}, longitude : {0, 13900}, timezone_str : {"UTC"}]

\* the frame of a call that has just been entered: pc is the function the
\* thread is in, jd and system are parameters or locals of that function
Frame(c) ==
    [pc        |-> c.call,
     args      |-> c,
     caller    |-> "",
     jd        |-> IF c.call = "calculate_houses" THEN c.jd ELSE 0,
     system    |-> IF c.call = "calculate_houses" THEN c.system ELSE "",
     cusp_data |-> NoResult,
     result    |-> NoResult]

InitShared ==
    /\ op = "init"
    /\ threads \in [Threads -> {Frame(c) : c \in SharedHouseCalls \cup SharedNatalCalls}]
    /\ current_config \in [house_system : {"P", "E", "O"}, zodiac : {"tropical"}]
    /\ current_system = "P"
    /\ chart_args = NoArgs
    /\ chart_data = NoResult
    /\ house_args = NoArgs
    /\ house_data = NoResult
    /\ positions = <<>>
    /\ max_orb = 0
    /\ aspects = <<>>
    /\ patterns = <<>>
    /\ FunctionsIdle

\* calculate_natal_chart up to the call of calculate_houses: the Julian day,
\* the planets, and the read of current_config['house_system'] for the
\* argument of the call
NatalChartEnter(t) ==
    /\ threads[t].pc = "calculate_natal_chart"
    /\ LET th == threads[t]
           jd == _datetime_to_julian(th.args.birth_date, th.args.timezone_str)
       IN  threads' =
             [threads EXCEPT ![t] =
                 IF IsError(jd)
                 THEN [th EXCEPT !.pc = "done", !.result = jd]
                 ELSE [th EXCEPT !.pc = "calculate_houses",
                                 !.caller = "calculate_natal_chart",
                                 !.jd = jd.value,
                                 !.system = current_config.house_system]]
    /\ op' = "calculate_natal_chart"
    /\ UNCHANGED <<current_config, current_system, chart_args, chart_data, house_args,
                   house_data, aspect_vars, func_vars>>

\* self.current_system = system
HousesStoreSystem(t) ==
    /\ threads[t].pc = "calculate_houses"
    /\ current_system' = threads[t].system
    /\ threads' = [threads EXCEPT ![t].pc = "calculate_houses_body"]
    /\ op' = "calculate_houses"
    /\ UNCHANGED <<current_config, chart_args, chart_data, house_args, house_data,
                   aspect_vars, func_vars>>

\* the rest of calculate_natal_chart, after calculate_houses has returned
NatalChartRest(args, jd, cusp_data, config) ==
    Assign(calculate_all_planets(jd), LAMBDA planet_positions :
    Assign(_assign_planets_to_houses(planet_positions, cusp_data.houses),
           LAMBDA planet_houses :
    Assign(calculate_aspects(planet_positions, 800), LAMBDA found_aspects :
    Assign(_generate_interpretations(planet_positions, found_aspects,
                                     cusp_data, planet_houses),
           LAMBDA interpretations :
    IF IsError(interpretations) THEN interpretations ELSE
    Return(NatalChartRecord([date       |-> args.birth_date,
                             latitude   |-> args.latitude,
                             longitude  |-> args.longitude,
                             timezone   |-> args.timezone_str,
                             julian_day |-> jd],
                            planet_positions, cusp_data, planet_houses,
                            found_aspects, interpretations.value, config))))))

\* the dispatch on the system read from the shared field instead of the
\* parameter
HousesCompute_shared_system(t) ==
    /\ threads[t].pc = "calculate_houses_body"
    /\ LET th   == threads[t]
           cusp == calculate_houses(th.jd, th.args.latitude, th.args.longitude,
                                    current_system)
       IN  threads' =
             [threads EXCEPT ![t] =
                 IF IsError(cusp) \/ th.caller = ""
                 THEN [th EXCEPT !.pc = "done", !.result = cusp]
                 ELSE [th EXCEPT !.pc = "calculate_natal_chart_body",
                                 !.cusp_data = cusp]]
    /\ op' = "calculate_houses_body"
    /\ UNCHANGED <<current_config, current_system, chart_args, chart_data, house_args,
                   house_data, aspect_vars, func_vars>>

\* the rest of calculate_houses, from the sidereal time to the return: it
\* reads its parameters only.  An exception leaves the caller too.
HousesCompute(t) ==
    /\ threads[t].pc = "calculate_houses_body"
    /\ LET th   == threads[t]
           cusp == calculate_houses(th.jd, th.args.latitude, th.args.longitude,
                                    th.system)
       IN  threads' =
             [threads EXCEPT ![t] =
                 IF IsError(cusp) \/ th.caller = ""
                 THEN [th EXCEPT !.pc = "done", !.result = cusp]
                 ELSE [th EXCEPT !.pc = "calculate_natal_chart_body",
                                 !.cusp_data = cusp]]
    /\ op' = "calculate_houses_body"
    /\ UNCHANGED <<current_config, current_system, chart_args, chart_data, house_args,
                   house_data, aspect_vars, func_vars>>

\* calculate_natal_chart from the assignment of the houses to the return,
\* where current_config is read again for the copy in the record
NatalChartFinish(t) ==
    /\ threads[t].pc = "calculate_natal_chart_body"
    /\ threads' =
          [threads EXCEPT ![t].pc = "done",
                          ![t].result = NatalChartRest(threads[t].args, threads[t].jd,
                                                       threads[t].cusp_data,
                                                       current_config)]
    /\ op' = "calculate_natal_chart_body"
    /\ UNCHANGED <<current_config, current_system, chart_args, chart_data, house_args,
                   house_data, aspect_vars, func_vars>>

NextShared ==
    \E t \in Threads :
        \/ NatalChartEnter(t)
        \/ HousesStoreSystem(t)
        \/ HousesCompute(t)
        \/ NatalChartFinish(t)

SpecShared == InitShared /\ [][NextShared]_vars

----------------------------------------------------------------------------
(* Claims about the chart orchestrator (checked under SpecChart) *)

\* the keys of a Chart record
ChartKeys ==
    {"birth_data", "planet_positions", "house_data", "planet_houses", "aspects",
     "aspect_patterns", "element_counts", "modality_counts", "interpretations"}

\* the (first body, second body, kind) name triples of two body sets whose
\* names differ and whose orb, times scale, is within the kind's base orb
TriplesWithin(first, second, scale) ==
    { <<first[c[1]].name, second[c[2]].name, ASPECTS[c[3]].name>> :
        c \in { x \in (1..Len(first)) \X (1..Len(second)) \X (1..Len(ASPECTS)) :
                  /\ first[x[1]].name # second[x[2]].name
                  /\ scale * CellOrb(first, second, x) <= ASPECTS[x[3]].orb } }

\* C1: for every date-time, latitude, longitude and recognised time zone,
\* calculate_natal_chart returns normally a Chart record (birth data, planet
\* positions, house data, a house number for every body, aspects, aspect
\* patterns, element and modality counts, interpretations) and never ends in
\* an error, also when aspects were found.
C1_NatalChartReturns ==
    op = "calculate_natal_chart" =>
        /\ ~ IsError(chart_data)
        /\ ChartKeys \subseteq DOMAIN chart_data.value
        /\ Len(chart_data.value.aspects) > 0
        /\ \A n \in 1..Len(chart_data.value.planet_positions) :
              LET planet == chart_data.value.planet_positions[n].name
              IN  /\ planet \in DOMAIN chart_data.value.planet_houses
                  /\ chart_data.value.planet_houses[planet] \in 1..12

\* C2: for every existing chart and transit date-time, calculate_transits
\* returns normally a record whose transit_aspects holds exactly the (transit
\* body, natal body, kind) triples of different names with
\* |distance - kind angle| <= the kind's base orb, once each, in
\* non-decreasing order of orb.
C2_TransitAspectsExact ==
    op = "calculate_transits" =>
        /\ ~ IsError(chart_data)
        /\ LET list     == chart_data.value.transit_aspects
               expected == TriplesWithin(chart_data.value.transit_positions,
                                         chart_args.natal_chart.planet_positions, 1)
           IN  /\ { <<list[n].transit_planet, list[n].natal_planet, list[n].aspect>> :
                      n \in 1..Len(list) } = expected
               /\ Len(list) = Cardinality(expected)
               /\ \A n \in 1..(Len(list) - 1) : list[n].orb <= list[n + 1].orb

\* C3: for every natal chart (29 February births included) and target
\* date-time, calculate_progressions returns normally a record whose
\* progressed chart is the natal chart of the birth date-time with its year
\* advanced by floor(age in days / 365), and whose progression aspects are
\* exactly the different-name (progressed body, natal body, kind) triples
\* with |distance - kind angle| <= half the kind's base orb.
C3_ProgressionsReturn ==
    op = "calculate_progressions" =>
        /\ ~ IsError(chart_data)
        /\ LET natal    == chart_args.natal_chart
               birth    == natal.birth_data.date
               years    == DaysBetween(birth, chart_args.progression_date) \div 365
               advanced == [birth EXCEPT !.year = birth.year + years]
               list     == chart_data.value.progression_aspects
           IN  /\ Return(chart_data.value.progressed_chart)
                    = calculate_natal_chart(advanced, natal.birth_data.latitude,
                                            natal.birth_data.longitude,
                                            natal.birth_data.timezone, current_config)
               /\ { <<list[n].progressed_planet, list[n].natal_planet, list[n].aspect>> :
                      n \in 1..Len(list) }
                    = TriplesWithin(chart_data.value.progressed_chart.planet_positions,
                                    natal.planet_positions, 2)

\* C4: for any two charts, calculate_compatibility returns a
\* compatibility_percentage within [0, 100], also when no synastry aspect at
\* all is found between them.
C4_PercentageInRange ==
    op = "calculate_compatibility" =>
        /\ ~ IsError(chart_data)
        /\ chart_data.value.compatibility_percentage \in 0..10000

\* calculate_compatibility has returned after finding a synastry aspect
CompatibilityReturned ==
    /\ op = "calculate_compatibility"
    /\ ~ IsError(chart_data)
    /\ Len(chart_data.value.synastry_aspects) >= 1

\* (total_score + max_possible_score) / (2 * max_possible_score) * 100 before
\* the clamp, in hundredths of a percent
UnclampedPercentage ==
    LET max_possible_score == Len(chart_data.value.synastry_aspects) * 10
    IN  RDiv((chart_data.value.compatibility_score + max_possible_score) * 10000,
             2 * max_possible_score)

\* C28: whenever calculate_compatibility finds at least one synastry aspect,
\* compatibility_percentage lies in [20, 100]: the clamp to [0, 100] does not
\* change the value, and the interpretation is never the one of the tier
\* below 20 ('Compatibilité très faible').
C28_PercentageAtLeastTwenty ==
    (op = "calculate_compatibility"
        /\ SynastryAspects(chart_args.chart1.planet_positions,
                           chart_args.chart2.planet_positions) # <<>>)
        => /\ CompatibilityReturned
           /\ chart_data.value.compatibility_percentage \in 2000..10000
           /\ chart_data.value.compatibility_percentage = UnclampedPercentage
           /\ chart_data.value.interpretation
                 # "Compatibilité très faible - Défis majeurs à surmonter"

\* two charts whose only synastry aspect is a square: the lowest percentage
C28_Witness ==
    /\ CompatibilityReturned
    /\ \A n \in 1..Len(chart_data.value.synastry_aspects) :
          chart_data.value.synastry_aspects[n].score = -6
    /\ chart_data.value.compatibility_percentage = 2000

\* the 16 scores of the table of _analyze_element_compatibility, by key
ElementPairScores ==
    ("Feu-Feu" :> 8) @@ ("Feu-Terre" :> 6) @@ ("Feu-Air" :> 9) @@ ("Feu-Eau" :> 4)
    @@ ("Terre-Feu" :> 6) @@ ("Terre-Terre" :> 8) @@ ("Terre-Air" :> 5) @@ ("Terre-Eau" :> 9)
    @@ ("Air-Feu" :> 9) @@ ("Air-Terre" :> 5) @@ ("Air-Air" :> 7) @@ ("Air-Eau" :> 6)
    @@ ("Eau-Feu" :> 4) @@ ("Eau-Terre" :> 9) @@ ("Eau-Air" :> 6) @@ ("Eau-Eau" :> 8)

\* C29: the total_score of the element analysis does not depend on the
\* element counts of the charts: for every two charts whose element_counts
\* carry the four elements it is 109, the sum of the 16 entries of the
\* table, and element_analysis holds the same 16 pair scores.
C29_ElementTotalIsConstant ==
    (op = "calculate_compatibility" /\ ~ IsError(chart_data)) =>
        /\ DOMAIN chart_args.chart1.element_counts = {"Feu", "Terre", "Air", "Eau"}
        /\ DOMAIN chart_args.chart2.element_counts = {"Feu", "Terre", "Air", "Eau"}
        /\ chart_data.value.element_compatibility.total_score = 109
        /\ chart_data.value.element_compatibility.element_analysis = ElementPairScores

\* two charts with different element counts, one of them without any body in
\* an element
C29_Witness ==
    /\ op = "calculate_compatibility"
    /\ ~ IsError(chart_data)
    /\ chart_args.chart1.element_counts # chart_args.chart2.element_counts
    /\ \E element \in DOMAIN chart_args.chart1.element_counts :
          chart_args.chart1.element_counts[element] = 0
    /\ chart_data.value.element_compatibility.total_score = 109

----------------------------------------------------------------------------
(* Claims about the aspect engine (checked under SpecAspects) *)

\* calculate_aspects has returned (its result is in aspects)
AspectsReturned == op \in {"calculate_aspects", "calculate_aspect_patterns"}

\* index of a body name in the body set calculate_aspects was called with
PositionIndex(name) == CHOOSE n \in 1..Len(positions) : positions[n].name = name

KindIndex(name) == CHOOSE k \in 1..Len(ASPECTS) : ASPECTS[k].name = name

\* the place of an entry in the order of discovery: pairs (i, j), i < j, in
\* the order of the two loops, the kinds of one pair in the order of ASPECTS
DiscoveryRank(a) ==
    (PositionIndex(a.planet1) * (Len(positions) + 1) + PositionIndex(a.planet2))
        * (Len(ASPECTS) + 1) + KindIndex(a.aspect)

SamePair(a, b) == {a.planet1, a.planet2} = {b.planet1, b.planet2}

\* C5: the list calculate_aspects returns never holds two entries for the same
\* unordered body pair with the same aspect kind, its entries are in
\* non-decreasing order of orb, and entries of equal orb keep their order of
\* discovery.
C5_NoDuplicateSortedStable ==
    AspectsReturned =>
        /\ \A m, n \in 1..Len(aspects) :
              m < n => ~ (SamePair(aspects[m], aspects[n])
                          /\ aspects[m].aspect = aspects[n].aspect)
        /\ \A m, n \in 1..Len(aspects) :
              m < n => aspects[m].orb <= aspects[n].orb
        /\ \A m, n \in 1..Len(aspects) :
              (m < n /\ aspects[m].orb = aspects[n].orb)
                  => DiscoveryRank(aspects[m]) < DiscoveryRank(aspects[n])

\* a returned list in which the sort moved an entry before one discovered
\* earlier, and which holds two entries of equal orb
C5_Witness ==
    /\ op = "calculate_aspects"
    /\ \E l, m \in 1..Len(aspects) : l < m /\ aspects[l].orb = aspects[m].orb
    /\ \E m, n \in 1..Len(aspects) :
          m < n /\ DiscoveryRank(aspects[n]) < DiscoveryRank(aspects[m])

\* C6: the list holds an entry for the unordered pair {p, q} of distinct bodies
\* with kind k if and only if |distance(p, q) - angle_k| <=
\* min(orb_k * orb_factor, max_orb); the entry's orb is that absolute
\* difference, its angle is angle_k and its actual_angle the distance.
C6_EntryIffWithinTolerance ==
    AspectsReturned =>
        /\ \A i, j \in 1..Len(positions) : \A k \in 1..Len(ASPECTS) :
              i < j =>
                LET d   == calculate_distance(positions[i].longitude,
                                              positions[j].longitude)
                    tol == Min((ASPECTS[k].orb * orb_factor) \div 100, max_orb)
                IN  (\E n \in 1..Len(aspects) :
                        /\ {aspects[n].planet1, aspects[n].planet2}
                              = {positions[i].name, positions[j].name}
                        /\ aspects[n].aspect = ASPECTS[k].name)
                    <=> (Abs(d - ASPECTS[k].angle) <= tol)
        /\ \A n \in 1..Len(aspects) :
              LET a == aspects[n]
                  d == calculate_distance(positions[PositionIndex(a.planet1)].longitude,
                                          positions[PositionIndex(a.planet2)].longitude)
                  k == KindIndex(a.aspect)
              IN  /\ a.planet1 # a.planet2
                  /\ a.angle = ASPECTS[k].angle
                  /\ a.actual_angle = d
                  /\ a.orb = Abs(d - a.angle)

\* a call whose max_orb (2.5) is below the quincunx orb (3): a pair exactly
\* 2.5 degrees from 150 is returned as a quincunx
C6_Witness ==
    /\ op = "calculate_aspects"
    /\ max_orb = 250
    /\ \E n \in 1..Len(aspects) :
          aspects[n].orb = 250 /\ aspects[n].aspect = "Quincunce"

\* C7: with orb_factor 1.0 and any max_orb every unordered pair of bodies is in
\* at most one entry of the list: no separation is accepted by two kinds.
C7_AtMostOneEntryPerPair ==
    AspectsReturned =>
        \A m, n \in 1..Len(aspects) :
            SamePair(aspects[m], aspects[n]) => m = n

\* a pair at the edge of the biquintile window (146 degrees, one degree from
\* the quincunx window) is returned as a biquintile
C7_Witness ==
    /\ op = "calculate_aspects"
    /\ orb_factor = 100
    /\ \E n \in 1..Len(aspects) :
          aspects[n].aspect = "Biquintile" /\ aspects[n].actual_angle = 14600

TrineBetween(x, y) ==
    \E n \in 1..Len(aspects) :
        /\ aspects[n].aspect = "Trigone"
        /\ {aspects[n].planet1, aspects[n].planet2} = {x, y}

PositionNames == {positions[n].name : n \in 1..Len(positions)}

TrineTriangle(x, y, z) ==
    /\ x # y /\ y # z /\ x # z
    /\ TrineBetween(x, y) /\ TrineBetween(y, z) /\ TrineBetween(x, z)

GrandTrines == SelectSeq(patterns, LAMBDA p : p.type = "Grand Trigone")

\* C8: when three bodies of the set are pairwise in trine aspect,
\* calculate_aspect_patterns returns exactly one "Grand Trigone" pattern, and
\* its planets are three distinct bodies pairwise connected by trines (of a
\* three-body set: those three).
C8_GrandTrineReported ==
    (/\ op = "calculate_aspect_patterns"
     /\ \E x, y, z \in PositionNames : TrineTriangle(x, y, z))
    => /\ Len(GrandTrines) = 1
       /\ Len(GrandTrines[1].planets) = 3
       /\ TrineTriangle(GrandTrines[1].planets[1], GrandTrines[1].planets[2],
                        GrandTrines[1].planets[3])
       /\ {GrandTrines[1].planets[n] : n \in 1..3} \subseteq PositionNames

\* three bodies mutually 120 degrees apart, patterns computed
C8_Witness ==
    /\ op = "calculate_aspect_patterns"
    /\ Len(positions) >= 3
    /\ calculate_distance(positions[1].longitude, positions[2].longitude) = 12000
    /\ calculate_distance(positions[2].longitude, positions[3].longitude) = 12000
    /\ calculate_distance(positions[1].longitude, positions[3].longitude) = 12000
    /\ max_orb = 800
    /\ \E n \in 1..Len(patterns) : patterns[n].type = "Grand Trigone"

\* the sets of three bodies that are pairwise in trine
TrineTriangles ==
    { T \in SUBSET PositionNames :
        /\ Cardinality(T) = 3
        /\ \A x, y \in T : x # y => TrineBetween(x, y) }

\* the bodies that lie on a trine triangle
OnTrineTriangle == UNION TrineTriangles

\* the place at which a body first appears in the list of trines handed to
\* _find_grand_trine (planet1 of an entry before its planet2)
FirstTrineAppearance(body) ==
    LET trines == SelectSeq(aspects, LAMBDA a : a.aspect = "Trigone")
        n == CHOOSE m \in 1..Len(trines) :
                 /\ body \in {trines[m].planet1, trines[m].planet2}
                 /\ \A l \in 1..(m - 1) : body \notin {trines[l].planet1, trines[l].planet2}
    IN  IF trines[n].planet1 = body THEN 2 * n - 1 ELSE 2 * n

\* C19: when the aspect list holds more than one trine triangle, the first
\* body of the reported Grand Trigone is the earliest body, in the order of
\* the body set (Sun, Moon, Mercury, ...), that lies on any trine triangle,
\* whatever the orbs of the trines.
C19_FirstBodyIsEarliestEnumerated ==
    (op = "calculate_aspect_patterns" /\ Cardinality(TrineTriangles) > 1)
        => /\ Len(GrandTrines) = 1
           /\ GrandTrines[1].planets[1] \in OnTrineTriangle
           /\ \A body \in OnTrineTriangle :
                 PositionIndex(GrandTrines[1].planets[1]) <= PositionIndex(body)

\* C19 as amended: the first body of the reported Grand Trigone is, of the
\* bodies that lie on a trine triangle, the one that appears first in the
\* aspect list, which calculate_aspects has sorted by orb.
C19_FirstBodyIsFirstInAspectList ==
    (op = "calculate_aspect_patterns" /\ Cardinality(TrineTriangles) > 1)
        => /\ Len(GrandTrines) = 1
           /\ GrandTrines[1].planets[1] \in OnTrineTriangle
           /\ \A body \in OnTrineTriangle :
                 FirstTrineAppearance(GrandTrines[1].planets[1])
                     <= FirstTrineAppearance(body)

\* two trine triangles, the tightest trine between later bodies: the
\* pattern does not start with the first body of the set, which is on a
\* triangle
C19_Witness ==
    /\ op = "calculate_aspect_patterns"
    /\ Cardinality(TrineTriangles) > 1
    /\ positions[1].name \in OnTrineTriangle
    /\ Len(GrandTrines) = 1
    /\ GrandTrines[1].planets[1] # positions[1].name

\* the aspect list holds an entry of this kind for the two bodies
AspectBetween(kind, x, y) ==
    \E n \in 1..Len(aspects) :
        /\ aspects[n].aspect = kind
        /\ {aspects[n].planet1, aspects[n].planet2} = {x, y}

\* C20: every "T-Carré" pattern [A, B, C] that calculate_aspect_patterns
\* reports is an opposition and two squares: A-B is an Opposition entry of
\* the aspect list and C is in Carré aspect to both A and B in that list.
C20_TSquareHasTwoSquares ==
    op = "calculate_aspect_patterns" =>
        \A n \in 1..Len(patterns) :
            patterns[n].type = "T-Carré" =>
                /\ Len(patterns[n].planets) = 3
                /\ AspectBetween("Opposition", patterns[n].planets[1],
                                 patterns[n].planets[2])
                /\ AspectBetween("Carré", patterns[n].planets[3],
                                 patterns[n].planets[1])
                /\ AspectBetween("Carré", patterns[n].planets[3],
                                 patterns[n].planets[2])

Yods == SelectSeq(patterns, LAMBDA p : p.type = "Yod")

\* the Quincunce entries of the aspect list, in list order
Quincunxes == SelectSeq(aspects, LAMBDA a : a.aspect = "Quincunce")

EndsOf(a) == {a.planet1, a.planet2}

\* the quincunxes i < j share exactly one body and their other ends are two
\* different bodies joined by a Sextile entry
YodAt(i, j) ==
    /\ i < j
    /\ Cardinality(EndsOf(Quincunxes[i]) \cap EndsOf(Quincunxes[j])) = 1
    /\ LET others == (EndsOf(Quincunxes[i]) \cup EndsOf(Quincunxes[j]))
                        \ (EndsOf(Quincunxes[i]) \cap EndsOf(Quincunxes[j]))
       IN  /\ Cardinality(others) = 2
           /\ \E x, y \in others : x # y /\ AspectBetween("Sextile", x, y)

YodPairs == { p \in (1..Len(Quincunxes)) \X (1..Len(Quincunxes)) : YodAt(p[1], p[2]) }

\* the first pair of YodPairs in the order of the two loops
FirstYodPair ==
    CHOOSE p \in YodPairs :
        \A q \in YodPairs : p[1] < q[1] \/ (p[1] = q[1] /\ p[2] <= q[2])

\* C21: calculate_aspect_patterns reports a Yod [S, X, Y] if and only if
\* the aspect list holds two distinct Quincunce entries that share exactly
\* the body S and whose other ends X and Y, different from each other and
\* from S, are joined by a Sextile; the one reported is the first such pair
\* of quincunxes (i < j) in list order, and at most one Yod is reported.
C21_YodIffQuincunxesAndSextile ==
    op = "calculate_aspect_patterns" =>
        /\ Len(Yods) <= 1
        /\ (Len(Yods) = 1) <=> (YodPairs # {})
        /\ Len(Yods) = 1 =>
              LET q1 == Quincunxes[FirstYodPair[1]]
                  q2 == Quincunxes[FirstYodPair[2]]
                  S  == Yods[1].planets[1]
                  X  == Yods[1].planets[2]
                  Y  == Yods[1].planets[3]
              IN  /\ Len(Yods[1].planets) = 3
                  /\ {S} = EndsOf(q1) \cap EndsOf(q2)
                  /\ EndsOf(q1) = {S, X}
                  /\ EndsOf(q2) = {S, Y}
                  /\ X # Y /\ X # S /\ Y # S
                  /\ AspectBetween("Sextile", X, Y)

\* several pairs of quincunxes make a Yod and the first of them is not the
\* first pair of quincunxes of the list
C21_Witness ==
    /\ op = "calculate_aspect_patterns"
    /\ Cardinality(YodPairs) > 1
    /\ FirstYodPair # <<1, 2>>
    /\ Len(Yods) = 1

----------------------------------------------------------------------------
(* Claims about the house engine (checked under SpecHouses) *)

HOUSE_SYSTEMS == {"P", "K", "C", "R", "E", "O"}

\* calculate_houses has returned a layout
HousesReturned == op = "calculate_houses" /\ ~ IsError(house_data)

\* C9: in every layout calculate_houses returns for one of the systems P, K,
\* C, R, E and O, houses[0] is the returned ascendant and houses[9] the
\* returned mc.
C9_CuspsAreAngles ==
    (HousesReturned /\ house_args.system \in HOUSE_SYSTEMS)
        => /\ house_data.houses[1] = house_data.ascendant
           /\ house_data.houses[10] = house_data.mc

\* the arc from cusp a to cusp b, in the direction of the houses
Arc(a, b) == normalize_angle(b - a)

\* three arcs that are equal up to the rounding of a division by 3
EqualArcs(h, n) ==
    /\ Abs(Arc(h[n], h[n + 1]) - Arc(h[n + 1], h[n + 2])) <= 1
    /\ Abs(Arc(h[n + 1], h[n + 2]) - Arc(h[n + 2], h[IF n + 3 > 12 THEN 1 ELSE n + 3])) <= 1

\* C10: with system "O" calculate_houses returns a layout of 12 cusps in
\* which ascendant, imum coeli, descendant and midheaven are the cusps of
\* houses 1, 4, 7 and 10 and the two other cusps of each quadrant divide it
\* into three equal arcs.
C10_PorphyryTrisectsQuadrants ==
    (op = "calculate_houses" /\ house_args.system = "O")
        => /\ ~ IsError(house_data)
           /\ Len(house_data.houses) = 12
           /\ house_data.houses[1] = house_data.ascendant
           /\ house_data.houses[4] = house_data.ic
           /\ house_data.houses[7] = house_data.descendant
           /\ house_data.houses[10] = house_data.mc
           /\ \A n \in {1, 4, 7, 10} : EqualArcs(house_data.houses, n)

\* C11: under the Equal system every cusp houses[i], i in 0..11, is the
\* ascendant advanced by 30*i degrees and brought into [0,360), so that
\* consecutive cusps are exactly 30 degrees apart on the circle, starting at
\* the ascendant.
C11_EqualCuspsThirtyApart ==
    (HousesReturned /\ house_args.system = "E")
        => /\ Len(house_data.houses) = 12
           /\ \A n \in 1..12 :
                 /\ house_data.houses[n] \in 0..35999
                 /\ house_data.houses[n]
                        = (house_data.ascendant + 3000 * (n - 1)) % 36000
                 /\ (house_data.houses[(n % 12) + 1] - house_data.houses[n]) % 36000
                        = 3000

\* an Equal layout whose cusps pass through 0 degrees
C11_Witness ==
    /\ HousesReturned
    /\ house_args.system = "E"
    /\ house_data.ascendant > 3000
    /\ \E n \in 2..12 : house_data.houses[n] < house_data.houses[n - 1]

\* C13: called with a system code outside {P,K,C,R,E,O}, calculate_houses
\* does not fail and returns the cusps, ascendant, descendant, mc and ic that
\* the call with system "P" returns for the same instant and location.
C13_UnknownCodeIsPlacidus ==
    (op = "calculate_houses" /\ house_args.system \notin HOUSE_SYSTEMS)
        => /\ ~ IsError(house_data)
           /\ LET placidus == calculate_houses(house_args.jd, house_args.latitude,
                                               house_args.longitude, "P")
              IN  /\ house_data.houses = placidus.houses
                  /\ house_data.ascendant = placidus.ascendant
                  /\ house_data.descendant = placidus.descendant
                  /\ house_data.mc = placidus.mc
                  /\ house_data.ic = placidus.ic

\* a layout returned for the code "X", away from the equator
C13_Witness ==
    /\ HousesReturned
    /\ house_args.system = "X"
    /\ house_args.latitude # 0
    /\ house_data.system = "X"
    /\ Len(house_data.houses) = 12

\* C22: the final pass of _placidus_houses leaves the 12 cusps in
\* non-decreasing order, houses[i] >= houses[i-1] for every i in 1..11,
\* whatever the ascendant, the mc and the latitude.
C22_PlacidusCuspsOrdered ==
    (HousesReturned /\ house_args.system = "P")
        => \A n \in 2..12 : house_data.houses[n] >= house_data.houses[n - 1]

\* C26: each of the 12 cusps calculate_houses returns lies in [0,360), for
\* every one of the six systems, so that int(cusp // 30) is a sign index in
\* 0..11.
C26_CuspsInRange ==
    (HousesReturned /\ house_args.system \in HOUSE_SYSTEMS)
        => \A n \in 1..12 :
              /\ house_data.houses[n] >= 0
              /\ house_data.houses[n] < 36000
              /\ SignIndex(house_data.houses[n]) \in 0..11

----------------------------------------------------------------------------
(* Claims about the functions called on their own (checked under           *)
(* SpecFunctions)                                                          *)

\* lon lies in the interval [a, b) of the circle: going round from a, lon
\* is met before b
InCircularInterval(lon, a, b) == (lon - a) % 36000 < (b - a) % 36000

\* the houses i whose interval [houses[i], houses[i+1]) holds the longitude
HousesHolding(lon, houses) ==
    { i \in 1..12 : InCircularInterval(lon, houses[i], houses[(i % 12) + 1]) }

IntervalHolds(lon, houses, i) ==
    LET house_cusp == houses[i]
        next_cusp  == houses[(i % 12) + 1]
    IN  IF next_cusp < house_cusp
        THEN lon >= house_cusp \/ lon < next_cusp
        ELSE house_cusp <= lon /\ lon < next_cusp

RecognisedBodies ==
    {"Sun", "Moon", "Mercury", "Venus", "Mars", "Jupiter", "Saturn", "Uranus",
     "Neptune", "Pluto", "Node", "South_Node", "Chiron"}

\* C14: called with a body name that is not a recognised body,
\* calculate_planet_position fails with a ValueError whose message names the
\* identifier, and returns no position record, partial or default.
C14_UnknownBodyIsValueError ==
    (op = "calculate_planet_position" /\ call_args.planet_name \notin RecognisedBodies)
        => /\ IsError(call_result)
           /\ call_result.error = "ValueError"
           /\ call_result.message = "Planète inconnue: " \o call_args.planet_name
           /\ DOMAIN call_result \cap {"value", "longitude", "latitude", "distance",
                                       "speed", "retrograde"} = {}

\* the failure for a name that differs from a known one by its case only
C14_Witness ==
    /\ op = "calculate_planet_position"
    /\ call_args.planet_name = "sun"
    /\ IsError(call_result)
    /\ call_result.message = "Planète inconnue: sun"

\* C15: for every instant calculate_all_planets returns a body set with
\* exactly the 13 keys Sun, Moon, Mercury, Venus, Mars, Jupiter, Saturn,
\* Uranus, Neptune, Pluto, Node, South_Node and Chiron, and the longitude of
\* every one of them lies in [0,360).
C15_ThirteenBodiesInRange ==
    op = "calculate_all_planets" =>
        /\ ~ IsError(call_result)
        /\ Len(call_result.value) = 13
        /\ { call_result.value[n].name : n \in 1..Len(call_result.value) }
              = RecognisedBodies
        /\ \A n \in 1..Len(call_result.value) :
              /\ call_result.value[n].longitude >= 0
              /\ call_result.value[n].longitude < 36000

\* a body set in which the Sun has just passed 0 degrees: its mean longitude
\* is still below 360 and the equation of the centre carries it beyond
C15_Witness ==
    /\ op = "calculate_all_planets"
    /\ Len(call_result.value) = 13
    /\ call_result.value[1].name = "Sun"
    /\ call_result.value[1].longitude < 200
    /\ _calculate_sun_position_unwrapped(call_args.jd).longitude >= 36000

\* the entry of a body in a body set
EntryOf(body_set, body) ==
    CHOOSE entry \in { body_set[n] : n \in 1..Len(body_set) } : entry.name = body

\* C24: in every body set calculate_all_planets returns, the retrograde flag
\* of a body is true exactly when its speed is negative; Node is the only
\* retrograde body, and the longitude of South_Node is
\* normalize_angle(longitude of Node + 180).
C24_RetrogradeIffNegativeSpeed ==
    op = "calculate_all_planets" =>
        /\ \A n \in 1..Len(call_result.value) :
              LET body == call_result.value[n]
              IN  /\ body.retrograde <=> (body.speed < 0)
                  /\ body.retrograde <=> (body.name = "Node")
        /\ EntryOf(call_result.value, "South_Node").longitude
              = normalize_angle(EntryOf(call_result.value, "Node").longitude + 18000)

\* a body set in which the south node is past 0 degrees: the north node is in
\* the second half of the circle
C24_Witness ==
    /\ op = "calculate_all_planets"
    /\ EntryOf(call_result.value, "Node").retrograde
    /\ EntryOf(call_result.value, "Node").longitude >= 18000
    /\ EntryOf(call_result.value, "South_Node").longitude < 18000

\* C27: calculate_planet_position succeeds for Node, South_Node and Chiron,
\* the bodies calculate_all_planets adds to the ten planets, and returns the
\* position that calculate_all_planets holds for the body at that instant.
C27_NodesAndChironHavePositions ==
    (op = "calculate_planet_position"
        /\ call_args.planet_name \in {"Node", "South_Node", "Chiron"})
        => /\ ~ IsError(call_result)
           /\ Item(call_args.planet_name, call_result.value)
                 = EntryOf(calculate_all_planets(call_args.jd), call_args.planet_name)

EightPlanets ==
    {"Mercury", "Venus", "Mars", "Jupiter", "Saturn", "Uranus", "Neptune", "Pluto"}

\* the entries of the eight planets in a body set, in the order of the set
EightOf(body_set) == SelectSeq(body_set, LAMBDA entry : entry.name \in EightPlanets)

\* C30: for each of Mercury, Venus, Mars, Jupiter, Saturn, Uranus, Neptune
\* and Pluto the position record calculate_planet_position returns is the
\* same at any two instants, and so are the aspects among these eight bodies
\* in the body sets of any two instants.
C30_PlanetPositionIgnoresInstant ==
    /\ (op = "calculate_planet_position" /\ call_args.planet_name \in EightPlanets)
          => /\ ~ IsError(call_result)
             /\ \A jd \in EphemerisInstants :
                   calculate_planet_position(call_args.planet_name, jd) = call_result
    /\ op = "calculate_all_planets"
          => /\ Len(EightOf(call_result.value)) = 8
             /\ \A jd \in {J2000, julian_day(2001, 11, 1, 6)} :
                   /\ EightOf(calculate_all_planets(jd)) = EightOf(call_result.value)
                   /\ calculate_aspects(EightOf(calculate_all_planets(jd)), 800)
                        = calculate_aspects(EightOf(call_result.value), 800)

\* the position of a planet asked for at an instant at which the Sun is not
\* where it is at the first instant of the ephemeris
C30_Witness ==
    /\ op = "calculate_planet_position"
    /\ call_args.planet_name = "Pluto"
    /\ ~ IsError(call_result)
    /\ call_result.value.longitude \in 0..35999
    /\ calculate_planet_position("Sun", call_args.jd)
          # calculate_planet_position("Sun", julian_day(1999, 1, 1, 6))

C18_JulianDayRoundTrip ==
    /\ (op = "julian_day" /\ call_args.year = 2000 /\ call_args.month = 1
          /\ call_args.day = 1 /\ call_args.hour = 12)
            => call_result.value = 24 * 2451545
    /\ op = "gregorian_from_jd"
            => call_result.value = <<call_args.year, call_args.month,
                                     call_args.day, call_args.hour>>

\* the leap day of 2000, late in the evening, has made the round trip
C18_Witness ==
    /\ op = "gregorian_from_jd"
    /\ call_args.year = 2000
    /\ call_args.month = 2
    /\ call_args.day = 29
    /\ call_args.hour = 23
    /\ call_result.value = <<2000, 2, 29, 23>>

----------------------------------------------------------------------------
(* Claims about normalize_angle (checked under SpecNormalize) *)

\* normalize_angle has returned r, a value of [0,360) congruent to the
\* argument modulo 360, which it returns again when called with r, and which
\* is the argument when the argument is in [0,360)
NormalizedResult ==
    /\ op = "normalize_angle"
    /\ ~ IsError(call_result)
    /\ call_result.value.binade = 0
    /\ call_result.value.n \in 0..35999
    /\ call_args.angle.binade = 0
          => (call_result.value.n - call_args.angle.n) % 36000 = 0
    /\ normalize_angle(call_result.value.n) = call_result.value.n
    /\ (call_args.angle.binade = 0 /\ call_args.angle.n \in 0..35999)
          => call_result.value = call_args.angle

\* C16: normalize_angle terminates for every finite input, negative and
\* large-magnitude ones included, and returns a value r in [0,360) congruent
\* to the input modulo 360; it is idempotent, and returns x itself when x is
\* already in [0,360).
C16_NormalizeTerminates ==
    (op = "init" /\ call_args.call = "normalize_angle") ~> NormalizedResult

----------------------------------------------------------------------------
(* Claims about calls on a shared instance (checked under SpecShared) *)

\* what the call returns or raises when it runs alone on the instance
AloneResult(c) ==
    IF c.call = "calculate_houses"
    THEN calculate_houses(c.jd, c.latitude, c.longitude, c.system)
    ELSE calculate_natal_chart(c.birth_date, c.latitude, c.longitude,
                               c.timezone_str, current_config)

\* C25: calls of calculate_houses and calculate_natal_chart on one shared
\* calculator do not interfere: in every interleaving each call ends with
\* what it returns when it runs alone, and no step changes the arguments of
\* a call or current_config (current_system, the one field written, is never
\* read).
C25_CallsDoNotInterfere ==
    /\ [](\A t \in DOMAIN threads :
            threads[t].pc = "done" => threads[t].result = AloneResult(threads[t].args))
    /\ [][/\ current_config' = current_config
          /\ \A t \in DOMAIN threads : threads'[t].args = threads[t].args]_vars

\* the first thread has finished a call of calculate_houses while the second
\* is inside one for another system: the second stored its system, the
\* first stored its own over it and returned its layout
C25_Witness ==
    /\ DOMAIN threads = Threads
    /\ threads[1].pc = "done"
    /\ threads[1].args.call = "calculate_houses"
    /\ ~ IsError(threads[1].result)
    /\ threads[2].pc = "calculate_houses_body"
    /\ threads[2].system # threads[1].system
    /\ current_system = threads[1].system
    /\ threads[1].result.houses # calculate_houses(threads[1].jd, threads[1].args.latitude,
                                                    threads[1].args.longitude,
                                                    threads[2].system).houses

====
